---- MODULE Spec2Model ----
(***************************************************************************)
(* IXWebSocket: the connection supervisor and the send path of             *)
(* ix::WebSocket (src/ixwebsocket/IXWebSocket.cpp).                        *)
(*                                                                         *)
(* Threads: one application thread that owns the object and calls          *)
(* start() / stop() (std::thread _thread is not synchronised, so lifecycle *)
(* calls come from one thread, but each call is a sequence of steps that   *)
(* interleave with the supervisor); the supervisor threads launched by     *)
(* start(), each executing run(); sender threads calling send() /          *)
(* sendMessage().                                                          *)
(*                                                                         *)
(* Spec / FairSpec: the life cycle (start, stop, connect, backoff, poll).  *)
(* BpSpec / FairBpSpec: the send path on an established connection.        *)
(*                                                                         *)
(* WebSocketTransport (_ws) and calculateRetryWaitMilliseconds are not     *)
(* part of the sources at hand; they are modelled from the specification   *)
(* (sections 3, 4.6, 4.7) and marked so in the model map.                  *)
(***************************************************************************)
EXTENDS Integers, Sequences, FiniteSets, TLC

\* ------------------------------------------------------------------ bounds
MaxStarts == 2    \* supervisor threads start() may launch
MaxFails == 2     \* failed connect attempts the network produces
MaxPeerEvents == 1    \* frames received from, and connections ended by, the peer
MaxSends == 3     \* send calls issued by the sender threads
NSenders == 2     \* concurrent sender threads

Threads == 1..MaxStarts
Senders == 1..NSenders

\* --------------------------------------------------------------- constants
kDefaultPingIntervalSecs == -1

\* Configurations set before start(): <<minWait, maxWait>> in milliseconds.
WaitConfigs == {<<2, 3>>}
PingIntervals == {kDefaultPingIntervalSecs, 1}
Thresholds == {0, 2}
SendSizes == {1, 2}

\* Failing handshake results: errorStr and http_status of WebSocketInitResult.
Failures == {[errorStr |-> "connect", http_status |-> 0],
             [errorStr |-> "status", http_status |-> 404]}

MessageKinds == {"Message", "Ping", "Pong", "Fragment"}
SendKinds == {"Text", "Binary", "Ping"}

VARIABLES
    \* configuration (members of WebSocket set by the setters before start)
    automaticReconnection,   \* _automaticReconnection
    minWait,                 \* _minWaitBetweenReconnectionRetries
    maxWait,                 \* _maxWaitBetweenReconnectionRetries
    pingIntervalSecs,        \* _pingIntervalSecs
    backpressureThreshold,   \* _backpressureThreshold
    \* shared state
    readyState,              \* _ws.getReadyState()
    requestInitCancellation, \* the transport's flag handed to the handshake
    stop,                    \* _stop
    thread,                  \* _thread: id of the joinable thread, 0 if none
    spawned,                 \* number of threads launched so far
    stats,                   \* _stats
    buffered,                \* _ws.bufferedAmount()
    backpressureActive,      \* _backpressureActive
    writeMutex,              \* _writeMutex: owner (sender id) or 0
    \* supervisor threads
    pc,                      \* position of each supervisor thread
    firstConnectionAttempt,  \* run()/checkConnection() local
    retries,                 \* checkConnection() local
    duration,                \* checkConnection() local (ms)
    status,                  \* result of connect()
    attempts,                \* connect attempts made by this run(): 0, 1, many
    \* application thread
    appPc,
    \* sender threads
    sendPc,
    currentBufferSize,       \* sendMessage() local
    sends,                   \* send calls issued so far
    sentOk,                  \* text/binary sends that returned success since
                             \* the last stats reset
    invalidText,             \* outcomes of the text sends whose payload is
                             \* not valid UTF-8
    \* environment budget
    fails, peerEvents,
    \* handshake engine (WebSocketHandshake)
    hsIn,                    \* arguments and peer's answer of one handshake
    hsOut,                   \* its result and what it wrote, NoResult before
    \* socket (Socket)
    sock,                    \* _sockfd, _socketMutex, _proxyConfig and the
                             \* position and result of one connect call
    \* connection pool (HttpConnectionPool) and its callers
    pool,                    \* _pool: per key, the idle connections in order
    poolMutex,               \* _mutex: owner (caller id) or 0
    poolPc,                  \* position of each caller in acquire / release
    poolKey,                 \* the key of the call a caller is in
    held,                    \* the socket each caller owns, 0 for none
    sockState,               \* per socket: unused, closed, open, destroyed
    now,                     \* steady_clock, in ticks
    releasedUnder,           \* per socket, the key it was last stored under
    lastAcquire,             \* what the last acquire returned, and to whom
    lastRelease,             \* what the last release did with its socket
    maxConnectionsPerHost,   \* _maxConnectionsPerHost
    \* configuration accesses (WebSocket's _configMutex)
    cfg,
    \* one Socket::poll call and its select interrupt
    sel,
    \* one proxy handshake (ProxyConnect)
    px,
    \* one blocking I/O helper call
    io,
    \* one byte-stream helper call with the bytes it moves
    stream,
    \* the WebSocketServer, its connection handlers and counters
    srv,
    \* one SOCKS5 request being built
    rq,
    \* observation
    trace,                   \* events of the current episode and its connection
    bpCalls                  \* invocations of the backpressure callback

vars == <<automaticReconnection, minWait, maxWait, pingIntervalSecs,
          backpressureThreshold, readyState, requestInitCancellation, stop,
          thread, spawned, stats, buffered, backpressureActive, writeMutex,
          pc, firstConnectionAttempt, retries, duration, status, attempts,
          appPc,
          sendPc, currentBufferSize, sends, sentOk, invalidText, fails,
          peerEvents, trace, bpCalls, hsIn, hsOut, sock,
          pool, poolMutex, poolPc, poolKey, held, sockState, now,
          releasedUnder, lastAcquire, lastRelease, maxConnectionsPerHost,
          cfg, sel, px, io, stream, srv, rq>>

\* State of the components below ix::WebSocket.
handshakeVars == <<hsIn, hsOut>>
socketVars == <<sock>>
poolVars == <<pool, poolMutex, poolPc, poolKey, held, sockState, now,
              releasedUnder, lastAcquire, lastRelease, maxConnectionsPerHost>>
extVars == <<stream, srv, rq>>
auxVars == <<cfg, sel, px, io, extVars>>
componentVars == <<handshakeVars, socketVars, poolVars, auxVars>>

configVars == <<automaticReconnection, minWait, maxWait, pingIntervalSecs,
                backpressureThreshold>>
senderVars == <<sendPc, currentBufferSize, sends, sentOk, invalidText,
                bpCalls, backpressureActive, writeMutex>>
appVars == <<appPc, thread, spawned>>
envVars == <<fails, peerEvents>>

\* ----------------------------------------------------------------- helpers
Min(a, b) == IF a < b THEN a ELSE b

RECURSIVE Pow2(_)
Pow2(n) == IF n = 0 THEN 1 ELSE 2 * Pow2(n - 1)

\* wait = min(min * 2^retries, max)
calculateRetryWaitMilliseconds(retryCount, maxWaitMs, minWaitMs) ==
    Min(minWaitMs * Pow2(retryCount), maxWaitMs)

ZeroStats == [messagesSent |-> 0, messagesReceived |-> 0, pingsSent |-> 0,
              pongsSent |-> 0, pingsReceived |-> 0, pongsReceived |-> 0]

StatsTotal(s) == s.messagesSent + s.messagesReceived + s.pingsSent
                 + s.pongsSent + s.pingsReceived + s.pongsReceived

\* The outcome of a text send call made with a payload that is not valid
\* UTF-8: whether it returned failure, whether it handed the payload to the
\* transport, and whether it initiated a close with code 1007.
Outcome(f, p, c) == [failed |-> f, passed |-> p, close1007 |-> c]

NoStatus == [success |-> FALSE, errorStr |-> "", http_status |-> 0]

\* An observed event.  retries / wait_time / reason / http_status are the
\* fields of WebSocketErrorInfo (Error), n is a duration (Sleep) or the sum
\* of the stats counters (Reset).
Event(e) == [ev |-> e, retries |-> 0, wait_time |-> 0, reason |-> "",
             http_status |-> 0, n |-> 0]

isConnected == readyState = "Open"
isClosing == readyState = "Closing"

HasEvent(tr, e) == \E i \in 1..Len(tr) : tr[i].ev = e

\* ------------------------------------------------------------------- Init
NoResult == [done |-> FALSE]

\* No handshake is being made.
HandshakeIdle ==
    /\ hsIn = [side |-> "none"]
    /\ hsOut = NoResult

SocketIdle == sock = [pc |-> "none"]

\* The pool is not in use: no key, no caller, no socket.
PoolIdle ==
    /\ pool = << >>
    /\ poolMutex = 0
    /\ poolPc = << >>
    /\ poolKey = << >>
    /\ held = << >>
    /\ sockState = << >>
    /\ now = 0
    /\ releasedUnder = << >>
    /\ lastAcquire = << >>
    /\ lastRelease = << >>
    /\ maxConnectionsPerHost = 0

ConfigIdle == cfg = [pc |-> "none"]
PollIdle == sel = [pc |-> "none"]
ProxyIdle == px = [pc |-> "none"]
IoIdle == io = [pc |-> "none"]
StreamIdle == stream = [pc |-> "none"]
ServerIdle == srv = [pc |-> "none"]
RequestIdle == rq = [pc |-> "none"]
ExtIdle == StreamIdle /\ ServerIdle /\ RequestIdle
ComponentsIdle ==
    /\ HandshakeIdle /\ SocketIdle /\ PoolIdle
    /\ ConfigIdle /\ PollIdle /\ ProxyIdle /\ IoIdle /\ ExtIdle

InitCommonNoComponents ==
    /\ readyState = "Closed"
    /\ requestInitCancellation = FALSE
    /\ stop = FALSE
    /\ thread = 0
    /\ spawned = 0
    /\ stats = ZeroStats
    /\ buffered = 0
    /\ backpressureActive = FALSE
    /\ writeMutex = 0
    /\ pc = [t \in Threads |-> "none"]
    /\ firstConnectionAttempt = [t \in Threads |-> TRUE]
    /\ retries = [t \in Threads |-> 0]
    /\ duration = [t \in Threads |-> 0]
    /\ status = [t \in Threads |-> NoStatus]
    /\ attempts = [t \in Threads |-> 0]
    /\ appPc = "idle"
    /\ sendPc = [s \in Senders |-> "idle"]
    /\ currentBufferSize = [s \in Senders |-> 0]
    /\ sends = 0
    /\ sentOk = 0
    /\ invalidText = {}
    /\ fails = 0
    /\ peerEvents = 0
    /\ trace = << >>
    /\ bpCalls = << >>

InitCommon == InitCommonNoComponents /\ ComponentsIdle

\* WebSocket::WebSocket() followed by the configuration setters.
Init ==
    /\ InitCommon
    /\ automaticReconnection \in BOOLEAN
    /\ \E w \in WaitConfigs : minWait = w[1] /\ maxWait = w[2]
    /\ pingIntervalSecs \in PingIntervals
    /\ backpressureThreshold = 0

\* ------------------------------------------------- transport (from the spec)
\* WebSocketTransport::close: request cancellation of a handshake in flight;
\* Open -> Closing (close frame queued, poll woken with kCloseRequest).  A
\* request made while no handshake is in flight is forgotten: the next
\* handshake starts by clearing the flag.
transport_close ==
    /\ requestInitCancellation' = (readyState = "Connecting")
    /\ readyState' = IF readyState = "Open" THEN "Closing" ELSE readyState

\* ----------------------------------------------------- supervisor: run()
Log(e) == trace' = Append(trace, e)

\* run(), line 409
run_enter(t) ==
    /\ pc[t] = "run"
    /\ firstConnectionAttempt' = [firstConnectionAttempt EXCEPT ![t] = TRUE]
    /\ pc' = [pc EXCEPT ![t] = "cc_enter"]
    /\ UNCHANGED <<componentVars, configVars, senderVars, appVars, envVars, readyState,
                   requestInitCancellation, stop, stats, buffered, retries,
                   duration, status, trace,
                   attempts>>

\* checkConnection(), lines 340-341.  A call made while the transport is
\* Closed begins a new reconnection episode.
checkConnection_enter(t) ==
    /\ pc[t] = "cc_enter"
    /\ retries' = [retries EXCEPT ![t] = 0]
    /\ duration' = [duration EXCEPT ![t] = 0]
    /\ trace' = IF readyState = "Closed"
                THEN (IF HasEvent(trace, "Open") THEN <<Event("Lost")>> ELSE << >>)
                ELSE trace
    /\ status' = [status EXCEPT ![t] = NoStatus]
    /\ pc' = [pc EXCEPT ![t] = "cc_loop"]
    /\ UNCHANGED <<componentVars, configVars, senderVars, appVars, envVars, readyState,
                   requestInitCancellation, stop, stats, buffered,
                   firstConnectionAttempt,
                   attempts>>

\* checkConnection() returns to run(): its locals are gone.
Return(t) ==
    /\ pc' = [pc EXCEPT ![t] = "run_check"]
    /\ retries' = [retries EXCEPT ![t] = 0]
    /\ duration' = [duration EXCEPT ![t] = 0]
    /\ UNCHANGED firstConnectionAttempt

\* checkConnection(), lines 346-360: the loop head up to the decision to sleep.
checkConnection_loop(t) ==
    /\ pc[t] = "cc_loop"
    /\ IF isConnected \/ isClosing \/ stop
            \/ (~firstConnectionAttempt[t] /\ ~automaticReconnection)
       THEN Return(t)
       ELSE /\ firstConnectionAttempt' = [firstConnectionAttempt EXCEPT ![t] = FALSE]
            /\ pc' = [pc EXCEPT ![t] = IF duration[t] > 0 THEN "cc_sleep"
                                       ELSE "cc_stop"]
            /\ UNCHANGED <<retries, duration>>
    /\ UNCHANGED <<componentVars, configVars, senderVars, appVars, envVars, readyState,
                   requestInitCancellation, stop, stats, buffered, status,
                   trace, attempts>>

\* checkConnection(), lines 362-363: lock _sleepMutex and wait_for(duration).
checkConnection_sleep(t) ==
    /\ pc[t] = "cc_sleep"
    /\ pc' = [pc EXCEPT ![t] = "waiting"]
    /\ Log([Event("Sleep") EXCEPT !.n = duration[t]])
    /\ UNCHANGED <<componentVars, configVars, senderVars, appVars, envVars, readyState,
                   requestInitCancellation, stop, stats, buffered,
                   firstConnectionAttempt, retries, duration, status,
                   attempts>>

\* wait_for returns because the duration elapsed.
checkConnection_timeout(t) ==
    /\ pc[t] = "waiting"
    /\ pc' = [pc EXCEPT ![t] = "cc_stop"]
    /\ UNCHANGED <<componentVars, configVars, senderVars, appVars, envVars, readyState,
                   requestInitCancellation, stop, stats, buffered,
                   firstConnectionAttempt, retries, duration, status, trace,
                   attempts>>

\* checkConnection(), lines 366-369
checkConnection_stop(t) ==
    /\ pc[t] = "cc_stop"
    /\ IF stop
       THEN Return(t)
       ELSE /\ pc' = [pc EXCEPT ![t] = "connect"]
            /\ UNCHANGED <<firstConnectionAttempt, retries, duration>>
    /\ UNCHANGED <<componentVars, configVars, senderVars, appVars, envVars, readyState,
                   requestInitCancellation, stop, stats, buffered, status,
                   trace, attempts>>

\* connect(), lines 231-260, up to the start of the client handshake, which
\* clears the cancellation flag (IXWebSocketHandshake.cpp line 98).
connect_begin(t) ==
    /\ pc[t] = "connect"
    /\ readyState' = "Connecting"
    /\ requestInitCancellation' = FALSE
    /\ Log(Event("Attempt"))
    /\ attempts' = [attempts EXCEPT ![t] = IF @ < 2 THEN @ + 1 ELSE @]
    /\ pc' = [pc EXCEPT ![t] = "connecting"]
    /\ UNCHANGED <<componentVars, configVars, senderVars, appVars, envVars, stop, stats,
                   buffered, firstConnectionAttempt, retries, duration, status>>

\* _ws.connectToUrl succeeds: the transport is Open.
connectToUrl_success(t) ==
    /\ pc[t] = "connecting"
    /\ ~requestInitCancellation
    /\ readyState' = "Open"
    /\ status' = [status EXCEPT ![t] = [NoStatus EXCEPT !.success = TRUE,
                                                        !.http_status = 101]]
    /\ Log(Event("Connected"))
    /\ pc' = [pc EXCEPT ![t] = "connect_reset"]
    /\ UNCHANGED <<componentVars, configVars, senderVars, appVars, envVars,
                   requestInitCancellation, stop, stats, buffered,
                   firstConnectionAttempt, retries, duration,
                   attempts>>

\* _ws.connectToUrl fails (refused, bad response, timeout, cancelled);
\* connect() returns the status at line 263.
connectToUrl_failure(t) ==
    /\ pc[t] = "connecting"
    /\ requestInitCancellation \/ fails < MaxFails
    /\ \E f \in Failures :
        /\ status' = [status EXCEPT ![t] = [success |-> FALSE,
                                            errorStr |-> f.errorStr,
                                            http_status |-> f.http_status]]
        /\ Log([Event("Failed") EXCEPT !.reason = f.errorStr,
                                       !.http_status = f.http_status])
    /\ fails' = IF fails < MaxFails THEN fails + 1 ELSE fails
    /\ readyState' = "Closed"
    /\ requestInitCancellation' = FALSE
    /\ pc' = [pc EXCEPT ![t] = "cc_error"]
    /\ UNCHANGED <<componentVars, configVars, senderVars, appVars, peerEvents,
                   stop, stats, buffered,
                   firstConnectionAttempt, retries, duration,
                   attempts>>

\* connect(), line 266
connect_resetStats(t) ==
    /\ pc[t] = "connect_reset"
    /\ stats' = ZeroStats
    /\ sentOk' = 0
    /\ Log([Event("Reset") EXCEPT !.n = StatsTotal(stats')])
    /\ pc' = [pc EXCEPT ![t] = "connect_open"]
    /\ UNCHANGED <<componentVars, configVars, sendPc, currentBufferSize, sends, invalidText,
                   bpCalls, backpressureActive, writeMutex, appVars, envVars,
                   readyState,
                   requestInitCancellation, stop, buffered,
                   firstConnectionAttempt, retries, duration, status,
                   attempts>>

\* connect(), lines 268-274: the Open message
connect_open(t) ==
    /\ pc[t] = "connect_open"
    /\ Log(Event("Open"))
    /\ pc' = [pc EXCEPT ![t] = "connect_heartbeat"]
    /\ UNCHANGED <<componentVars, configVars, senderVars, appVars, envVars, readyState,
                   requestInitCancellation, stop, stats, buffered,
                   firstConnectionAttempt, retries, duration, status,
                   attempts>>

\* Variant of connect_heartBeat that sends the heart beat whatever the ping
\* interval is.
connect_heartBeat_always(t) ==
    /\ pc[t] = "connect_heartbeat"
    /\ trace' = Append(trace, Event("HeartBeat"))
    /\ pc' = [pc EXCEPT ![t] = "cc_loop"]
    /\ UNCHANGED <<componentVars, configVars, senderVars, appVars, envVars, readyState,
                   requestInitCancellation, stop, stats, buffered,
                   firstConnectionAttempt, retries, duration, status,
                   attempts>>

\* connect(), lines 276-282: the heart beat sent right away, then return to
\* the loop of checkConnection().
connect_heartBeat(t) ==
    /\ pc[t] = "connect_heartbeat"
    /\ trace' = IF pingIntervalSecs > 0 THEN Append(trace, Event("HeartBeat"))
                ELSE trace
    /\ pc' = [pc EXCEPT ![t] = "cc_loop"]
    /\ UNCHANGED <<componentVars, configVars, senderVars, appVars, envVars, readyState,
                   requestInitCancellation, stop, stats, buffered,
                   firstConnectionAttempt, retries, duration, status,
                   attempts>>

\* Variant of checkConnection_error that increments retries before computing
\* the wait (passes ++retries instead of retries++).
checkConnection_error_preIncrement(t) ==
    /\ pc[t] = "cc_error"
    /\ LET wait == calculateRetryWaitMilliseconds(retries[t] + 1, maxWait, minWait)
       IN IF automaticReconnection
          THEN /\ duration' = [duration EXCEPT ![t] = wait]
               /\ retries' = [retries EXCEPT ![t] = retries[t] + 1]
               /\ Log([Event("Error") EXCEPT !.wait_time = wait,
                                            !.retries = retries[t] + 1,
                                            !.reason = status[t].errorStr,
                                            !.http_status = status[t].http_status])
          ELSE /\ UNCHANGED <<duration, retries>>
               /\ Log([Event("Error") EXCEPT !.reason = status[t].errorStr,
                                            !.http_status = status[t].http_status])
    /\ status' = [status EXCEPT ![t] = NoStatus]
    /\ pc' = [pc EXCEPT ![t] = "cc_loop"]
    /\ UNCHANGED <<componentVars, configVars, senderVars, appVars, envVars, readyState,
                   requestInitCancellation, stop, stats, buffered,
                   firstConnectionAttempt,
                   attempts>>

\* Variant of checkConnection_error that reports the retry count without
\* counting the failed attempt.
checkConnection_error_noCount(t) ==
    /\ pc[t] = "cc_error"
    /\ LET wait == calculateRetryWaitMilliseconds(retries[t], maxWait, minWait)
       IN IF automaticReconnection
          THEN /\ duration' = [duration EXCEPT ![t] = wait]
               /\ retries' = [retries EXCEPT ![t] = retries[t] + 1]
               /\ Log([Event("Error") EXCEPT !.wait_time = wait,
                                            !.retries = 1,
                                            !.reason = status[t].errorStr,
                                            !.http_status = status[t].http_status])
          ELSE /\ UNCHANGED <<duration, retries>>
               /\ Log([Event("Error") EXCEPT !.reason = status[t].errorStr,
                                            !.http_status = status[t].http_status])
    /\ status' = [status EXCEPT ![t] = NoStatus]
    /\ pc' = [pc EXCEPT ![t] = "cc_loop"]
    /\ UNCHANGED <<componentVars, configVars, senderVars, appVars, envVars, readyState,
                   requestInitCancellation, stop, stats, buffered,
                   firstConnectionAttempt,
                   attempts>>

\* checkConnection(), lines 374-398: the Error message of a failed attempt
checkConnection_error(t) ==
    /\ pc[t] = "cc_error"
    /\ LET wait == calculateRetryWaitMilliseconds(retries[t], maxWait, minWait)
       IN IF automaticReconnection
          THEN /\ duration' = [duration EXCEPT ![t] = wait]
               /\ retries' = [retries EXCEPT ![t] = retries[t] + 1]
               /\ Log([Event("Error") EXCEPT !.wait_time = wait,
                                            !.retries = retries[t] + 1,
                                            !.reason = status[t].errorStr,
                                            !.http_status = status[t].http_status])
          ELSE /\ UNCHANGED <<duration, retries>>
               /\ Log([Event("Error") EXCEPT !.reason = status[t].errorStr,
                                            !.http_status = status[t].http_status])
    /\ status' = [status EXCEPT ![t] = NoStatus]
    /\ pc' = [pc EXCEPT ![t] = "cc_loop"]
    /\ UNCHANGED <<componentVars, configVars, senderVars, appVars, envVars, readyState,
                   requestInitCancellation, stop, stats, buffered,
                   firstConnectionAttempt,
                   attempts>>

\* The thread function returns: its locals are gone, and the episode it was
\* in is over.
Exit(t) ==
    /\ pc' = [pc EXCEPT ![t] = "done"]
    /\ firstConnectionAttempt' = [firstConnectionAttempt EXCEPT ![t] = TRUE]
    /\ retries' = [retries EXCEPT ![t] = 0]
    /\ duration' = [duration EXCEPT ![t] = 0]
    /\ status' = [status EXCEPT ![t] = NoStatus]
    /\ attempts' = [attempts EXCEPT ![t] = 0]
    /\ trace' = IF readyState = "Closed" THEN << >> ELSE trace

\* run(), lines 416-425: after checkConnection() returned
run_check(t) ==
    /\ pc[t] = "run_check"
    /\ IF readyState = "Closed" \/ (stop /\ ~isClosing)
       THEN Exit(t)
       ELSE /\ pc' = [pc EXCEPT ![t] = "poll"]
            /\ firstConnectionAttempt' = [firstConnectionAttempt EXCEPT ![t] = FALSE]
            /\ UNCHANGED <<retries, duration, status, attempts, trace>>
    /\ UNCHANGED <<componentVars, configVars, senderVars, appVars, envVars, readyState,
                   requestInitCancellation, stop, stats, buffered>>

\* run(), lines 428-489: poll returns with a frame, dispatch hands it to the
\* callback, which counts it (with _enablePong at its default, true) and
\* passes it to the sink.
dispatch_message(t) ==
    /\ pc[t] = "poll"
    /\ readyState = "Open"
    /\ peerEvents < MaxPeerEvents
    /\ peerEvents' = peerEvents + 1
    /\ \E kind \in MessageKinds :
        /\ stats' = CASE kind = "Message" ->
                           [stats EXCEPT !.messagesReceived = @ + 1]
                      [] kind = "Ping" ->
                           [stats EXCEPT !.pingsReceived = @ + 1,
                                         !.pongsSent = @ + 1]
                      [] kind = "Pong" ->
                           [stats EXCEPT !.pongsReceived = @ + 1]
                      [] OTHER -> stats
        /\ Log(Event(kind))
    /\ pc' = [pc EXCEPT ![t] = "cc_enter"]
    /\ UNCHANGED <<componentVars, configVars, senderVars, appVars, fails, readyState,
                   requestInitCancellation, stop, buffered,
                   firstConnectionAttempt, retries, duration, status,
                   attempts>>

\* run(), line 428: poll returns on a send request or a timeout; the
\* transport writes out part of the send queue.
poll_drain(t) ==
    /\ pc[t] = "poll"
    /\ \E b \in 0..buffered : buffered' = b
    /\ pc' = [pc EXCEPT ![t] = "cc_enter"]
    /\ UNCHANGED <<componentVars, configVars, senderVars, appVars, envVars, readyState,
                   requestInitCancellation, stop, stats,
                   firstConnectionAttempt, retries, duration, status, trace,
                   attempts>>

\* run(), lines 428-431: the close handshake ends (or its timeout elapses)
\* and the transport goes Closing -> Closed; the close callback installed by
\* the constructor (lines 51-61) passes a Close message to the sink.
poll_closed(t) ==
    /\ pc[t] = "poll"
    /\ readyState = "Closing"
    /\ readyState' = "Closed"
    /\ buffered' = 0
    /\ Log(Event("Close"))
    /\ pc' = [pc EXCEPT ![t] = "cc_enter"]
    /\ UNCHANGED <<componentVars, configVars, senderVars, appVars, envVars,
                   requestInitCancellation, stop, stats,
                   firstConnectionAttempt, retries, duration, status,
                   attempts>>

\* run(), lines 428-431: the peer closes or an I/O error ends the connection.
poll_lost(t) ==
    /\ pc[t] = "poll"
    /\ readyState = "Open"
    /\ peerEvents < MaxPeerEvents
    /\ peerEvents' = peerEvents + 1
    /\ readyState' = "Closed"
    /\ buffered' = 0
    /\ Log(Event("Close"))
    /\ pc' = [pc EXCEPT ![t] = "cc_enter"]
    /\ UNCHANGED <<componentVars, configVars, senderVars, appVars, fails,
                   requestInitCancellation, stop, stats,
                   firstConnectionAttempt, retries, duration, status,
                   attempts>>

Supervisor(t) ==
    \/ run_enter(t)
    \/ checkConnection_enter(t)
    \/ checkConnection_loop(t)
    \/ checkConnection_sleep(t)
    \/ checkConnection_timeout(t)
    \/ checkConnection_stop(t)
    \/ connect_begin(t)
    \/ connectToUrl_success(t)
    \/ connectToUrl_failure(t)
    \/ connect_resetStats(t)
    \/ connect_open(t)
    \/ connect_heartBeat(t)
    \/ checkConnection_error(t)
    \/ run_check(t)
    \/ dispatch_message(t)
    \/ poll_drain(t)
    \/ poll_closed(t)
    \/ poll_lost(t)

\* ------------------------------------------------- application: start()
Running(t) == pc[t] \notin {"none", "done"}

\* start(), lines 199-209
start_check ==
    /\ appPc = "idle"
    /\ spawned < MaxStarts
    /\ \/ /\ thread # 0
          /\ readyState = "Closed"
          /\ appPc' = "start_join"
       \/ /\ thread = 0
          /\ appPc' = "start_launch"
    /\ UNCHANGED <<componentVars, configVars, senderVars, envVars, thread, spawned, readyState,
                   requestInitCancellation, stop, stats, buffered, pc,
                   firstConnectionAttempt, retries, duration, status, trace,
                   attempts>>

\* Variant of start_join that does not wait for the prior thread to end.
start_join_detached ==
    /\ appPc = "start_join"
    /\ thread' = 0
    /\ appPc' = "start_launch"
    /\ UNCHANGED <<componentVars, configVars, senderVars, envVars, spawned, readyState,
                   requestInitCancellation, stop, stats, buffered, pc,
                   firstConnectionAttempt, retries, duration, status, trace,
                   attempts>>

\* start(), line 203: _thread.join()
start_join ==
    /\ appPc = "start_join"
    /\ pc[thread] = "done"
    /\ thread' = 0
    /\ appPc' = "start_launch"
    /\ UNCHANGED <<componentVars, configVars, senderVars, envVars, spawned, readyState,
                   requestInitCancellation, stop, stats, buffered, pc,
                   firstConnectionAttempt, retries, duration, status, trace,
                   attempts>>

\* start(), line 211: _thread = std::thread(&WebSocket::run, this)
start_launch ==
    /\ appPc = "start_launch"
    /\ spawned' = spawned + 1
    /\ thread' = spawned + 1
    /\ pc' = [pc EXCEPT ![spawned + 1] = "run"]
    /\ appPc' = "idle"
    /\ UNCHANGED <<componentVars, configVars, senderVars, envVars, readyState,
                   requestInitCancellation, stop, stats, buffered,
                   firstConnectionAttempt, retries, duration, status, trace,
                   attempts>>

\* -------------------------------------------------- application: stop()
\* stop(), lines 216-218: close(code, reason), then the joinable test
stop_close ==
    /\ appPc = "idle"
    /\ transport_close
    /\ appPc' = IF thread # 0 THEN "stop_set" ELSE "idle"
    /\ UNCHANGED <<componentVars, configVars, senderVars, envVars, thread, spawned, stop,
                   stats, buffered, pc, firstConnectionAttempt, retries,
                   duration, status, trace,
                   attempts>>

\* stop(), line 222
stop_set ==
    /\ appPc = "stop_set"
    /\ stop' = TRUE
    /\ appPc' = "stop_notify"
    /\ UNCHANGED <<componentVars, configVars, senderVars, envVars, thread, spawned, readyState,
                   requestInitCancellation, stats, buffered, pc,
                   firstConnectionAttempt, retries, duration, status, trace,
                   attempts>>

\* stop(), line 223: _sleepCondition.notify_one() wakes a thread that is
\* waiting in wait_for, and is lost when none is.
stop_notify ==
    /\ appPc = "stop_notify"
    /\ IF \E t \in Threads : pc[t] = "waiting"
       THEN \E t \in Threads : /\ pc[t] = "waiting"
                               /\ pc' = [pc EXCEPT ![t] = "cc_stop"]
       ELSE UNCHANGED pc
    /\ appPc' = "stop_join"
    /\ UNCHANGED <<componentVars, configVars, senderVars, envVars, thread, spawned, readyState,
                   requestInitCancellation, stop, stats, buffered,
                   firstConnectionAttempt, retries, duration, status, trace,
                   attempts>>

\* Variant of stop_join that does not wait for the supervisor thread to end.
stop_join_detached ==
    /\ appPc = "stop_join"
    /\ thread' = 0
    /\ appPc' = "stop_clear"
    /\ UNCHANGED <<componentVars, configVars, senderVars, envVars, spawned, readyState,
                   requestInitCancellation, stop, stats, buffered, pc,
                   firstConnectionAttempt, retries, duration, status, trace,
                   attempts>>

\* stop(), line 224: _thread.join()
stop_join ==
    /\ appPc = "stop_join"
    /\ pc[thread] = "done"
    /\ thread' = 0
    /\ appPc' = "stop_clear"
    /\ UNCHANGED <<componentVars, configVars, senderVars, envVars, spawned, readyState,
                   requestInitCancellation, stop, stats, buffered, pc,
                   firstConnectionAttempt, retries, duration, status, trace,
                   attempts>>

\* stop(), line 225
stop_clear ==
    /\ appPc = "stop_clear"
    /\ stop' = FALSE
    /\ appPc' = "idle"
    /\ UNCHANGED <<componentVars, configVars, senderVars, envVars, thread, spawned, readyState,
                   requestInitCancellation, stats, buffered, pc,
                   firstConnectionAttempt, retries, duration, status, trace,
                   attempts>>

Application ==
    \/ start_check
    \/ start_join
    \/ start_launch
    \/ stop_close
    \/ stop_set
    \/ stop_notify
    \/ stop_join
    \/ stop_clear

\* ------------------------------------------------ senders: sendMessage()
supervisorVars == <<pc, firstConnectionAttempt, retries, duration, status,
                    attempts, trace>>

\* _ws.sendText / sendBinary / sendPing: the payload is appended to the send
\* queue of an Open transport and bufferedAmount grows by its size; on a
\* transport that is not Open the send fails.
transport_send(size) ==
    buffered' = IF readyState = "Open" THEN buffered + size ELSE buffered

\* sendMessage(), line 622: the call returns at once when not connected.
sendMessage_enter(s) ==
    /\ sendPc[s] = "idle"
    /\ sends < MaxSends
    /\ sends' = sends + 1
    /\ sendPc' = [sendPc EXCEPT ![s] = IF isConnected THEN "lock" ELSE "idle"]
    /\ UNCHANGED <<componentVars, configVars, appVars, envVars, supervisorVars, sentOk, invalidText, readyState,
                   requestInitCancellation, stop, stats, buffered,
                   currentBufferSize, bpCalls, backpressureActive, writeMutex>>

\* sendMessage(), line 633: lock _writeMutex, held until the call returns.
sendMessage_lock(s) ==
    /\ sendPc[s] = "lock"
    /\ writeMutex = 0
    /\ writeMutex' = s
    /\ sendPc' = [sendPc EXCEPT ![s] = "send"]
    /\ UNCHANGED <<componentVars, configVars, appVars, envVars, supervisorVars, sentOk, invalidText, readyState,
                   requestInitCancellation, stop, stats, buffered,
                   currentBufferSize, bpCalls, backpressureActive, sends>>

\* sendMessage(), lines 636-671: hand the message to the transport and count
\* it when the send succeeded.
sendMessage_send(s) ==
    /\ sendPc[s] = "send"
    /\ \E size \in SendSizes : transport_send(size)
    /\ \E kind \in SendKinds :
         /\ stats' = IF readyState # "Open" THEN stats
                     ELSE IF kind = "Ping"
                          THEN [stats EXCEPT !.pingsSent = @ + 1]
                          ELSE [stats EXCEPT !.messagesSent = @ + 1]
         /\ sentOk' = IF readyState = "Open" /\ kind # "Ping"
                      THEN sentOk + 1 ELSE sentOk
    /\ sendPc' = [sendPc EXCEPT ![s] = "threshold"]
    /\ UNCHANGED <<componentVars, configVars, appVars, envVars, supervisorVars, invalidText,
                   readyState,
                   requestInitCancellation, stop,
                   currentBufferSize, bpCalls, backpressureActive, writeMutex,
                   sends>>

\* sendMessage(), lines 674-677: load the threshold and, when it is set, read
\* bufferedAmount.
sendMessage_threshold(s) ==
    /\ sendPc[s] = "threshold"
    /\ IF backpressureThreshold > 0
       THEN /\ currentBufferSize' = [currentBufferSize EXCEPT ![s] = buffered]
            /\ sendPc' = [sendPc EXCEPT ![s] = "backpressure"]
       ELSE /\ sendPc' = [sendPc EXCEPT ![s] = "return"]
            /\ UNCHANGED currentBufferSize
    /\ UNCHANGED <<componentVars, configVars, appVars, envVars, supervisorVars, sentOk, invalidText, readyState,
                   requestInitCancellation, stop, stats, buffered,
                   bpCalls, backpressureActive, writeMutex, sends>>

\* Variant of sendMessage_backpressure that invokes the callback without
\* storing the new state of the backpressure flag.
sendMessage_backpressure_noStore(s) ==
    /\ sendPc[s] = "backpressure"
    /\ LET isAboveThreshold == currentBufferSize[s] >= backpressureThreshold
           wasActive == backpressureActive
       IN IF isAboveThreshold # wasActive
          THEN /\ UNCHANGED backpressureActive
               /\ bpCalls' = Append(bpCalls, [size |-> currentBufferSize[s],
                                              flag |-> isAboveThreshold])
          ELSE UNCHANGED <<backpressureActive, bpCalls>>
    /\ sendPc' = [sendPc EXCEPT ![s] = "return"]
    /\ UNCHANGED <<componentVars, configVars, appVars, envVars, supervisorVars, sentOk, invalidText, readyState,
                   requestInitCancellation, stop, stats, buffered,
                   currentBufferSize, writeMutex, sends>>

\* sendMessage(), lines 678-688: under _backpressureMutex (taken only here,
\* by callers that hold _writeMutex) compare with the flag, store the new
\* state and invoke the callback.
sendMessage_backpressure(s) ==
    /\ sendPc[s] = "backpressure"
    /\ LET isAboveThreshold == currentBufferSize[s] >= backpressureThreshold
           wasActive == backpressureActive
       IN IF isAboveThreshold # wasActive
          THEN /\ backpressureActive' = isAboveThreshold
               /\ bpCalls' = Append(bpCalls, [size |-> currentBufferSize[s],
                                              flag |-> isAboveThreshold])
          ELSE UNCHANGED <<backpressureActive, bpCalls>>
    /\ sendPc' = [sendPc EXCEPT ![s] = "return"]
    /\ UNCHANGED <<componentVars, configVars, appVars, envVars, supervisorVars, sentOk, invalidText, readyState,
                   requestInitCancellation, stop, stats, buffered,
                   currentBufferSize, writeMutex, sends>>

\* sendMessage(), line 691: return, releasing _writeMutex.
sendMessage_return(s) ==
    /\ sendPc[s] = "return"
    /\ writeMutex' = 0
    /\ currentBufferSize' = [currentBufferSize EXCEPT ![s] = 0]
    /\ sendPc' = [sendPc EXCEPT ![s] = "idle"]
    /\ UNCHANGED <<componentVars, configVars, appVars, envVars, supervisorVars, sentOk, invalidText, readyState,
                   requestInitCancellation, stop, stats, buffered,
                   bpCalls, backpressureActive, sends>>

\* send(data, binary, MessagePriority::High), lines 564-566: lock _writeMutex
send_high_lock(s) ==
    /\ sendPc[s] = "idle"
    /\ sends < MaxSends
    /\ sends' = sends + 1
    /\ writeMutex = 0
    /\ writeMutex' = s
    /\ sendPc' = [sendPc EXCEPT ![s] = "high"]
    /\ UNCHANGED <<componentVars, configVars, appVars, envVars, supervisorVars, sentOk, invalidText, readyState,
                   requestInitCancellation, stop, stats, buffered,
                   currentBufferSize, bpCalls, backpressureActive>>

\* send(High), lines 567-569: the transport's send, called directly with the
\* caller's payload (text or binary, valid UTF-8 or not); the call returns
\* without the stats and backpressure bookkeeping.
send_high_send(s) ==
    /\ sendPc[s] = "high"
    /\ \E size \in SendSizes : transport_send(size)
    /\ sentOk' = IF readyState = "Open" THEN sentOk + 1 ELSE sentOk
    /\ \E binary, valid \in BOOLEAN :
         invalidText' = IF binary \/ valid THEN invalidText
                        ELSE invalidText \cup
                               {Outcome(readyState # "Open", TRUE, FALSE)}
    /\ writeMutex' = 0
    /\ sendPc' = [sendPc EXCEPT ![s] = "idle"]
    /\ UNCHANGED <<componentVars, configVars, appVars, envVars, supervisorVars, readyState,
                   requestInitCancellation, stop, stats,
                   currentBufferSize, bpCalls, backpressureActive, sends>>

\* sendText(), lines 600-605 (reached from send(data, false) at line 554 and
\* from send(data, false, priority) at line 570): the payload is not valid
\* UTF-8, so the call closes with kInvalidFramePayloadData (1007) and
\* returns failure.
sendText_invalid(s) ==
    /\ sendPc[s] = "idle"
    /\ sends < MaxSends
    /\ sends' = sends + 1
    /\ transport_close
    /\ invalidText' = invalidText \cup {Outcome(TRUE, FALSE, TRUE)}
    /\ UNCHANGED <<componentVars, configVars, appVars, envVars, supervisorVars, sentOk, stop,
                   stats, buffered, sendPc, currentBufferSize, bpCalls,
                   backpressureActive, writeMutex>>

\* The steps of a send call that has been entered.
SenderStep(s) ==
    \/ sendMessage_lock(s)
    \/ sendMessage_send(s)
    \/ sendMessage_threshold(s)
    \/ sendMessage_backpressure(s)
    \/ sendMessage_return(s)
    \/ send_high_send(s)

Sender(s) ==
    \/ sendMessage_enter(s)
    \/ send_high_lock(s)
    \/ SenderStep(s)

\* ------------------------------------------------------------ specification
Next ==
    \/ \E t \in Threads : Supervisor(t)
    \/ Application

Spec == Init /\ [][Next]_vars

\* The supervisor threads make progress, the handshake ends (success, failure
\* or handshake timeout), the close handshake ends (close timeout), and the
\* application thread executes a call it has entered to its end.
Fairness ==
    /\ \A t \in Threads : WF_vars(Supervisor(t))
    /\ \A t \in Threads : SF_vars(poll_closed(t))
    /\ WF_vars(stop_set \/ stop_notify \/ stop_join \/ stop_clear)
    /\ WF_vars(start_join \/ start_launch)

FairSpec == Spec /\ Fairness

\* ---------------------------------------- specification of the send path
\* An established connection: start() has launched the supervisor, connect()
\* has succeeded and the supervisor is in poll; the backpressure threshold
\* was set before start().
InitBp ==
    /\ automaticReconnection = FALSE
    /\ \E w \in WaitConfigs : minWait = w[1] /\ maxWait = w[2]
    /\ pingIntervalSecs = kDefaultPingIntervalSecs
    /\ backpressureThreshold \in Thresholds
    /\ readyState = "Open"
    /\ requestInitCancellation = FALSE
    /\ stop = FALSE
    /\ thread = 1
    /\ spawned = 1
    /\ stats = ZeroStats
    /\ buffered = 0
    /\ backpressureActive = FALSE
    /\ writeMutex = 0
    /\ pc = [t \in Threads |-> IF t = 1 THEN "poll" ELSE "none"]
    /\ firstConnectionAttempt = [t \in Threads |-> t # 1]
    /\ retries = [t \in Threads |-> 0]
    /\ duration = [t \in Threads |-> 0]
    /\ status = [t \in Threads |-> NoStatus]
    /\ attempts = [t \in Threads |-> IF t = 1 THEN 1 ELSE 0]
    /\ appPc = "idle"
    /\ sendPc = [s \in Senders |-> "idle"]
    /\ currentBufferSize = [s \in Senders |-> 0]
    /\ sends = 0
    /\ sentOk = 0
    /\ invalidText = {}
    /\ fails = 0
    /\ peerEvents = 0
    /\ trace = <<Event("Attempt"), Event("Connected"), Event("Reset"),
                 Event("Open")>>
    /\ bpCalls = << >>
    /\ ComponentsIdle

\* The supervisor's poll loop on the established connection.
Poller(t) ==
    \/ checkConnection_enter(t)
    \/ checkConnection_loop(t)
    \/ run_check(t)
    \/ poll_drain(t)
    \/ poll_lost(t)

BpNext ==
    \/ \E t \in Threads : Poller(t)
    \/ \E s \in Senders : Sender(s)

BpSpec == InitBp /\ [][BpNext]_vars

\* The supervisor keeps polling and a send call that has been entered runs
\* to its end; the application is free not to send again.
BpFairness ==
    /\ \A t \in Threads : WF_vars(Poller(t))
    /\ \A s \in Senders : WF_vars(SenderStep(s))

FairBpSpec == BpSpec /\ BpFairness

\* The send path with the frames the peer sends, the text sends that fail
\* validation and the close they initiate.
SendNext ==
    \/ BpNext
    \/ \E t \in Threads : dispatch_message(t) \/ poll_closed(t)
    \/ \E s \in Senders : sendText_invalid(s)

SendSpec == InitBp /\ [][SendNext]_vars

\* ------------------------------- specification of the outbound operations
\* connect() has returned from connectToUrl with the connection open (the
\* transport set the ready state to Open, so sendMessage's isConnected()
\* test passes) and is about to publish Open and send the first heart beat,
\* while the application's threads send and close.
InitWrite ==
    /\ automaticReconnection = FALSE
    /\ \E w \in WaitConfigs : minWait = w[1] /\ maxWait = w[2]
    /\ pingIntervalSecs \in {kDefaultPingIntervalSecs, 1}
    /\ backpressureThreshold \in Thresholds
    /\ readyState = "Open"
    /\ requestInitCancellation = FALSE
    /\ stop = FALSE
    /\ thread = 1
    /\ spawned = 1
    /\ stats = ZeroStats
    /\ buffered = 0
    /\ backpressureActive = FALSE
    /\ writeMutex = 0
    /\ pc = [t \in Threads |-> IF t = 1 THEN "connect_open" ELSE "none"]
    /\ firstConnectionAttempt = [t \in Threads |-> t # 1]
    /\ retries = [t \in Threads |-> 0]
    /\ duration = [t \in Threads |-> 0]
    /\ status = [t \in Threads |-> NoStatus]
    /\ attempts = [t \in Threads |-> IF t = 1 THEN 1 ELSE 0]
    /\ appPc = "idle"
    /\ sendPc = [s \in Senders |-> "idle"]
    /\ currentBufferSize = [s \in Senders |-> 0]
    /\ sends = 0
    /\ sentOk = 0
    /\ invalidText = {}
    /\ fails = 0
    /\ peerEvents = 0
    /\ trace = <<Event("Attempt"), Event("Connected"), Event("Reset")>>
    /\ bpCalls = << >>
    /\ ComponentsIdle

\* WebSocket::close(), lines 331-334: the transport's close, called directly
WebSocket_close ==
    /\ readyState = "Open"
    /\ transport_close
    /\ UNCHANGED <<componentVars, configVars, senderVars, appVars, envVars,
                   supervisorVars, stop, stats, buffered>>

WriteNext ==
    \/ \E t \in Threads : connect_open(t) \/ connect_heartBeat(t) \/ Poller(t)
    \/ \E s \in Senders : Sender(s)
    \/ WebSocket_close

WriteSpec == InitWrite /\ [][WriteNext]_vars

\* ------------------------------------------------------------------ claims
IsError(e) == e.ev = "Error"
Errors == SelectSeq(trace, IsError)
InConnect(t) == pc[t] \in {"connect_reset", "connect_open", "connect_heartbeat"}
InStop == appPc \in {"stop_set", "stop_notify", "stop_join", "stop_clear"}

\* C1: whenever a supervisor's run loop terminates, readyState is Closed.
C1_ExitsClosed ==
    [][\A t \in Threads :
          (pc[t] # "done" /\ pc'[t] = "done") => readyState' = "Closed"]_vars

C4_NoLostWakeup ==
    ~(appPc = "stop_join" /\ \E t \in Threads : pc[t] = "waiting")

\* C5: no connect attempt is started once the stop flag is set, and with
\* automatic reconnection disabled a run() makes at most one attempt.
C5_RetriesOnlyIfAllowed ==
    [][\A t \in Threads :
          /\ (pc[t] = "connect" /\ pc'[t] = "connecting") => ~stop
          /\ ~automaticReconnection => attempts'[t] <= 1]_vars

C8_OpenAfterConnect ==
    \A i \in 1..Len(trace) :
      /\ trace[i].ev = "Connected" =>
           /\ \A j \in 1..Len(trace) : trace[j].ev = "Connected" => j = i
           /\ IF i + 1 <= Len(trace)
              THEN trace[i + 1].ev = "Reset" /\ trace[i + 1].n = 0
              ELSE \E t \in Threads : pc[t] = "connect_reset"
           /\ IF i + 2 <= Len(trace)
              THEN trace[i + 2].ev = "Open"
              ELSE \E t \in Threads : pc[t] \in {"connect_reset", "connect_open"}
           /\ IF i + 3 <= Len(trace)
              THEN trace[i + 3].ev = "HeartBeat" <=> pingIntervalSecs > 0
              ELSE pingIntervalSecs > 0 => \E t \in Threads : InConnect(t)
      /\ trace[i].ev = "Open" =>
           /\ i > 2
           /\ trace[i - 1].ev = "Reset"
           /\ trace[i - 2].ev = "Connected"
      /\ trace[i].ev = "HeartBeat" =>
           /\ pingIntervalSecs > 0
           /\ i > 1
           /\ trace[i - 1].ev = "Open"
      /\ trace[i].ev \in MessageKinds \cup {"Close"} =>
           \E j \in 1..(i - 1) : trace[j].ev = "Open"

C8_Witness ==
    \E i \in 1..Len(trace) :
      /\ trace[i].ev = "Open"
      /\ i + 2 <= Len(trace)
      /\ trace[i + 1].ev = "HeartBeat"
      /\ trace[i + 2].ev \in MessageKinds

\* C9: with backpressureThreshold > 0 successive invocations of the
\* backpressure callback strictly alternate (size, true), (size, false), ...
\* starting with (size, true), the flag telling whether the reported size
\* reached the threshold; with threshold 0 the callback is never invoked.
C9_BackpressureAlternates ==
    /\ \A i \in 1..Len(bpCalls) :
        /\ bpCalls[i].flag = (i % 2 = 1)
        /\ bpCalls[i].flag = (bpCalls[i].size >= backpressureThreshold)
    /\ backpressureActive = (Len(bpCalls) % 2 = 1)
    /\ backpressureThreshold = 0 => bpCalls = << >>

C9_Witness ==
    /\ Len(bpCalls) = 3
    /\ bpCalls[3].flag
    /\ bpCalls[3].size > backpressureThreshold
    /\ \E s \in Senders : sendPc[s] = "return"

\* C10: whenever backpressure has been signalled with (size, true) and
\* bufferedAmount has fallen back below the threshold, the callback is
\* eventually invoked with (size, false); stated for the runs in which the
\* connection stays open, where the supervisor never stops polling.
C10_BackpressureReleased ==
    [](readyState = "Open") =>
      ((/\ bpCalls # << >>
        /\ bpCalls[Len(bpCalls)].flag
        /\ buffered < backpressureThreshold)
         ~> (bpCalls # << >> /\ ~bpCalls[Len(bpCalls)].flag))

\* ---- stats
\* Position of the last stats reset in the trace (0 when there is none).
LastReset ==
    IF HasEvent(trace, "Reset")
    THEN CHOOSE i \in 1..Len(trace) :
           /\ trace[i].ev = "Reset"
           /\ \A j \in (i + 1)..Len(trace) : trace[j].ev # "Reset"
    ELSE 0

\* Events of one kind delivered to the sink since the last stats reset.
Delivered(kind) ==
    Cardinality({i \in (LastReset + 1)..Len(trace) : trace[i].ev = kind})

\* C11: since the last stats reset, messagesSent equals the number of
\* text/binary sends (normal or high priority) that returned success,
\* messagesReceived the number of Message events delivered to the sink, and
\* pingsReceived / pongsReceived the numbers of Ping / Pong events delivered.
C11_StatsMatchEvents ==
    LastReset > 0 =>
      /\ stats.messagesSent = sentOk
      /\ stats.messagesReceived = Delivered("Message")
      /\ stats.pingsReceived = Delivered("Ping")
      /\ stats.pongsReceived = Delivered("Pong")

\* ---- text payloads
\* C12: a text send, at any priority, whose payload is not valid UTF-8
\* returns failure, passes nothing to the transport and initiates a close
\* with code 1007.
C12_InvalidTextRejected ==
    \A o \in invalidText : o.failed /\ ~o.passed /\ o.close1007

\* ===================================================== handshake engine
\* Strings are sequences of characters.
Absent == <<"<absent>">>   \* a header the map does not hold

S_Upgrade == <<"U", "p", "g", "r", "a", "d", "e">>
S_upgrade == <<"u", "p", "g", "r", "a", "d", "e">>
S_close == <<"c", "l", "o", "s", "e">>
S_websocket == <<"w", "e", "b", "s", "o", "c", "k", "e", "t">>
S_WebSocket == <<"W", "e", "b", "S", "o", "c", "k", "e", "t">>
S_h2c == <<"h", "2", "c">>
S_firefox == <<"k", "e", "e", "p", "-", "a", "l", "i", "v", "e", ",", " ",
               "U", "p", "g", "r", "a", "d", "e">>
S_firefoxLower == <<"k", "e", "e", "p", "-", "a", "l", "i", "v", "e", ",", " ",
                    "u", "p", "g", "r", "a", "d", "e">>
S_deflate == <<"p", "m", "d">>   \* stands for "permessage-deflate"

UpperChars == <<"A", "B", "C", "D", "E", "F", "G", "H", "I", "J", "K", "L", "M",
                "N", "O", "P", "Q", "R", "S", "T", "U", "V", "W", "X", "Y", "Z">>
LowerChars == <<"a", "b", "c", "d", "e", "f", "g", "h", "i", "j", "k", "l", "m",
                "n", "o", "p", "q", "r", "s", "t", "u", "v", "w", "x", "y", "z">>

ToLower(c) ==
    IF \E i \in 1..Len(UpperChars) : UpperChars[i] = c
    THEN LowerChars[CHOOSE i \in 1..Len(UpperChars) : UpperChars[i] = c]
    ELSE c

\* insensitiveStringCompare comparing the bytes as they are.
insensitiveStringCompare_exact(a, b) == a = b

\* WebSocketHandshake::insensitiveStringCompare: CaseInsensitiveLess::cmp = 0
insensitiveStringCompare(a, b) ==
    /\ Len(a) = Len(b)
    /\ \A i \in 1..Len(a) : ToLower(a[i]) = ToLower(b[i])

\* headers[name] of std::map: the value, or the empty string it inserts.
HeaderValue(h) == IF h = Absent THEN << >> ELSE h

\* WebSocketPerMessageDeflateOptions(header).enabled()
DeflateEnabled(h) == HeaderValue(h) = S_deflate

\* WebSocketHandshakeKeyGen::generate: base64(SHA1(key + GUID)), kept as an
\* injective function of the key.
Keys == {<<"k", "1">>, <<"k", "2">>}
KeyGen(key) == <<"a", "c", "c", ":">> \o key

\* Header names the application may pass as extra headers.
ExtraNames == <<"Host", "Origin", "Sec-WebSocket-Key", "Sec-WebSocket-Protocol",
                "Upgrade", "User-Agent", "X-App">>
S_mine == <<"m", "i", "n", "e">>
NoExtra == [n \in {ExtraNames[i] : i \in 1..Len(ExtraNames)} |-> Absent]
ExtraHeaderSets ==
    {NoExtra,
     [NoExtra EXCEPT !["X-App"] = S_mine],
     [NoExtra EXCEPT !["Upgrade"] = S_h2c],
     [NoExtra EXCEPT !["Sec-WebSocket-Key"] = S_mine, !["Sec-WebSocket-Protocol"] = S_mine],
     [NoExtra EXCEPT !["Host"] = S_mine, !["Origin"] = S_mine, !["User-Agent"] = S_mine]}

\* Sub-protocol names and lists.
P_a == <<"a">>
P_ab == <<"a", "b">>
P_c == <<"c">>
ProtocolLists == {<< >>, <<P_a>>, <<P_ab>>, <<P_ab, P_c>>, <<P_c, P_a>>}

\* WebSocket::connect, IXWebSocket.cpp lines 248-256: the names joined by ","
RECURSIVE JoinProtocols(_)
JoinProtocols(list) ==
    IF list = << >> THEN << >>
    ELSE IF Len(list) = 1 THEN list[1]
    ELSE list[1] \o <<",">> \o JoinProtocols(Tail(list))

\* WebSocket::connect, IXWebSocket.cpp lines 237-258: the extra headers, with
\* Sec-WebSocket-Protocol set when sub-protocols are configured.
ConnectHeaders(extra, subProtocols) ==
    IF subProtocols # << >>
    THEN [extra EXCEPT !["Sec-WebSocket-Protocol"] = JoinProtocols(subProtocols)]
    ELSE extra

Line(n, v, o) == [name |-> n, value |-> v, from |-> o]

\* clientHandshake, lines 141-144: one line per entry of the header map.
\* owned holds the names whose value WebSocket::connect has set; every other
\* value is the application's.
RECURSIVE ExtraLines(_, _, _)
ExtraLines(extraHeaders, owned, i) ==
    IF i > Len(ExtraNames) THEN << >>
    ELSE (IF extraHeaders[ExtraNames[i]] = Absent THEN << >>
          ELSE <<Line(ExtraNames[i], extraHeaders[ExtraNames[i]],
                      IF ExtraNames[i] \in owned THEN "engine" ELSE "extra")>>)
         \o ExtraLines(extraHeaders, owned, i + 1)

\* clientHandshake, lines 116-151: the header lines of the upgrade request.
ClientRequest(in) ==
    LET extraHeaders == ConnectHeaders(in.extra, in.subProtocols)
    IN (IF extraHeaders["Host"] = Absent
        THEN <<Line("Host", <<"h">>, "engine")>> ELSE << >>)
       \o <<Line("Upgrade", S_websocket, "engine"),
            Line("Connection", S_Upgrade, "engine"),
            Line("Sec-WebSocket-Version", <<"1", "3">>, "engine"),
            Line("Sec-WebSocket-Key", in.key, "engine")>>
       \o (IF extraHeaders["User-Agent"] = Absent
           THEN <<Line("User-Agent", <<"u">>, "engine")>> ELSE << >>)
       \o (IF extraHeaders["Origin"] = Absent
           THEN <<Line("Origin", <<"o">>, "engine")>> ELSE << >>)
       \o ExtraLines(extraHeaders,
                     IF in.subProtocols # << >>
                     THEN {"Sec-WebSocket-Protocol"} ELSE {}, 1)
       \o (IF in.enableDeflate
           THEN <<Line("Sec-WebSocket-Extensions", S_deflate, "engine")>>
           ELSE << >>)

\* WebSocketInitResult, with what the call wrote to the socket and the state
\* it left in _enablePerMessageDeflate.
Result(ok, code, deflate, wrote, selected) ==
    [done |-> TRUE, success |-> ok, http_status |-> code,
     enablePerMessageDeflate |-> deflate, written |-> wrote,
     protocol |-> selected]

\* WebSocketHandshake::clientHandshake, lines 89-246.  in.io names the socket
\* operation that fails, if any; in.httpVersion and in.status are what
\* Http::parseStatusLine returns for the status line.
ClientHandshake(in) ==
    LET request == ClientRequest(in)
        deflate == in.enableDeflate
    IN IF in.io = "connect" THEN Result(FALSE, 0, deflate, << >>, << >>)
       ELSE IF in.io = "write" THEN Result(FALSE, 0, deflate, << >>, << >>)
       ELSE IF in.io = "readLine" THEN Result(FALSE, 0, deflate, request, << >>)
       ELSE IF in.httpVersion # "HTTP/1.1"
            THEN Result(FALSE, in.status, deflate, request, << >>)
       ELSE IF in.io = "headers" THEN Result(FALSE, in.status, deflate, request, << >>)
       ELSE IF in.status # 101 THEN Result(FALSE, in.status, deflate, request, << >>)
       ELSE IF in.connection = Absent
            THEN Result(FALSE, in.status, deflate, request, << >>)
       ELSE IF ~insensitiveStringCompare(HeaderValue(in.connection), S_Upgrade)
            THEN Result(FALSE, in.status, deflate, request, << >>)
       ELSE IF KeyGen(in.key) # HeaderValue(in.accept)
            THEN Result(FALSE, in.status, deflate, request, << >>)
       ELSE IF deflate /\ ~DeflateEnabled(in.extensions)
            THEN Result(TRUE, in.status, FALSE, request, << >>)
       ELSE IF deflate /\ ~in.initOk
            THEN Result(FALSE, 0, deflate, request, << >>)
       ELSE Result(TRUE, in.status, deflate, request, << >>)

ClientInputs ==
    {in \in
    [side : {"client"},
     io : {"none", "connect", "write", "readLine", "headers"},
     httpVersion : {"HTTP/1.1", "HTTP/1.0"},
     status : {101, 200},
     connection : {Absent, S_Upgrade, S_upgrade, S_close},
     accept : {Absent} \cup {KeyGen(k) : k \in Keys},
     extensions : {Absent, S_deflate},
     key : Keys,
     enableDeflate : BOOLEAN,
     initOk : BOOLEAN,
     extra : ExtraHeaderSets,
     subProtocols : {<< >>, <<P_a, P_c>>}] :
     ~in.initOk => (in.enableDeflate /\ in.extensions = S_deflate)}

\* One call of clientHandshake.
clientHandshake ==
    /\ hsIn.side = "client"
    /\ ~hsOut.done
    /\ hsOut' = ClientHandshake(hsIn)
    /\ requestInitCancellation' = FALSE
    /\ UNCHANGED <<hsIn, socketVars, poolVars, auxVars, configVars, senderVars, appVars, envVars,
                   supervisorVars, readyState, stop, stats, buffered>>

\* std::string::find(needle) # npos
Contains(hay, needle) ==
    \E i \in 0..(Len(hay) - Len(needle)) :
        SubSeq(hay, i + 1, i + Len(needle)) = needle

DigitChars == <<"0", "1", "2", "3", "4", "5", "6", "7", "8", "9">>
IsDigit(c) == \E d \in 1..10 : DigitChars[d] = c
DigitValue(c) == (CHOOSE d \in 1..10 : DigitChars[d] = c) - 1

\* std::stringstream >> int: the value of the leading digits, 0 when there
\* are none (the extraction fails and stores 0).
RECURSIVE ParseDigits(_, _)
ParseDigits(str, acc) ==
    IF str = << >> \/ ~IsDigit(Head(str)) THEN acc
    ELSE ParseDigits(Tail(str), 10 * acc + DigitValue(Head(str)))

ParseInt(str) == ParseDigits(str, 0)

\* One write to the socket: the status line's code and reason, the header
\* lines after it, and whether writeBytes succeeded.
Response(code, reason, lines, delivered) ==
    [code |-> code, reason |-> reason, lines |-> lines, delivered |-> delivered]

\* WebSocketHandshake::sendErrorResponse, lines 65-87
sendErrorResponse(in, code, reason) ==
    IF ~in.writeOk
    THEN Result(FALSE, 500, FALSE, <<Response(code, reason, << >>, FALSE)>>, << >>)
    ELSE Result(FALSE, code, FALSE, <<Response(code, reason, << >>, TRUE)>>, << >>)

\* serverHandshake, lines 359-372: the first server protocol found in the
\* client's header value.
RECURSIVE SelectProtocol(_, _)
SelectProtocol(subProtocols, clientProtocols) ==
    IF subProtocols = << >> THEN << >>
    ELSE IF Contains(clientProtocols, Head(subProtocols))
         THEN Head(subProtocols)
         ELSE SelectProtocol(Tail(subProtocols), clientProtocols)

\* serverHandshake, lines 347-399: the 101 response.
ServerAccept(in) ==
    LET selectedProtocol ==
            IF in.subProtocols # << >> /\ in.protocols # Absent
            THEN SelectProtocol(in.subProtocols, HeaderValue(in.protocols))
            ELSE << >>
        deflate == DeflateEnabled(in.extensions) /\ in.enableDeflate
        lines == <<Line("Sec-WebSocket-Accept", KeyGen(HeaderValue(in.key)), "engine"),
                   Line("Upgrade", S_websocket, "engine"),
                   Line("Connection", S_Upgrade, "engine"),
                   Line("Server", <<"u">>, "engine")>>
                 \o (IF selectedProtocol # << >>
                     THEN <<Line("Sec-WebSocket-Protocol", selectedProtocol, "engine")>>
                     ELSE << >>)
                 \o (IF deflate
                     THEN <<Line("Sec-WebSocket-Extensions", S_deflate, "engine")>>
                     ELSE << >>)
    IN IF deflate /\ ~in.initOk
       THEN Result(FALSE, 0, TRUE, << >>, << >>)
       ELSE IF ~in.writeOk
       THEN Result(FALSE, 0, deflate,
                   <<Response(101, "Switching Protocols", lines, FALSE)>>, << >>)
       ELSE Result(TRUE, 200, deflate,
                   <<Response(101, "Switching Protocols", lines, TRUE)>>,
                   selectedProtocol)

\* WebSocketHandshake::serverHandshake, lines 248-400.  in.parsed tells
\* whether the caller passed the parsed request; in.method and
\* in.httpVersion are the request's or what Http::parseRequestLine returns;
\* in.io names the read that fails, if any.
ServerHandshake(in) ==
    IF ~in.parsed /\ in.io = "readLine"
    THEN sendErrorResponse(in, 400, "Error reading HTTP request line")
    ELSE IF in.method # "GET"
    THEN sendErrorResponse(in, 400, "Invalid HTTP method")
    ELSE IF in.httpVersion # "HTTP/1.1"
    THEN sendErrorResponse(in, 400, "Invalid HTTP version")
    ELSE IF ~in.parsed /\ in.io = "headers"
    THEN sendErrorResponse(in, 400, "Error parsing HTTP headers")
    ELSE IF in.key = Absent
    THEN sendErrorResponse(in, 400, "Missing Sec-WebSocket-Key value")
    ELSE IF in.upgrade = Absent
    THEN sendErrorResponse(in, 400, "Missing Upgrade header")
    ELSE IF /\ ~insensitiveStringCompare(HeaderValue(in.upgrade), S_WebSocket)
            /\ HeaderValue(in.upgrade) # S_firefox
    THEN sendErrorResponse(in, 400, "Invalid Upgrade header")
    ELSE IF in.version = Absent
    THEN sendErrorResponse(in, 400, "Missing Sec-WebSocket-Version value")
    ELSE IF ParseInt(HeaderValue(in.version)) # 13
    THEN sendErrorResponse(in, 400, "Invalid Sec-WebSocket-Version")
    ELSE ServerAccept(in)

ServerInputs ==
    {in \in
    [side : {"server"},
     parsed : BOOLEAN,
     io : {"none", "readLine", "headers"},
     writeOk : BOOLEAN,
     method : {"GET", "POST"},
     httpVersion : {"HTTP/1.1", "HTTP/1.0"},
     key : {Absent, <<"k", "1">>},
     upgrade : {Absent, S_websocket, S_WebSocket, S_firefox, S_firefoxLower, S_h2c},
     version : {Absent, <<"1", "3">>, <<"1", "2">>, <<"1", "3", "a">>},
     protocols : {Absent, P_a, P_ab, JoinProtocols(<<P_ab, P_c>>)},
     subProtocols : {<< >>, <<P_a>>, <<P_c, P_a>>},
     extensions : {Absent, S_deflate},
     enableDeflate : BOOLEAN,
     initOk : BOOLEAN] :
     /\ ~in.initOk => (in.enableDeflate /\ in.extensions = S_deflate)
     /\ in.parsed => in.io = "none"}

\* One call of serverHandshake.
serverHandshake ==
    /\ hsIn.side = "server"
    /\ ~hsOut.done
    /\ hsOut' = ServerHandshake(hsIn)
    /\ requestInitCancellation' = FALSE
    /\ UNCHANGED <<hsIn, socketVars, poolVars, auxVars, configVars, senderVars, appVars, envVars,
                   supervisorVars, readyState, stop, stats, buffered>>

\* A WebSocket object that is not started, used here for its handshake.
InitIdle ==
    /\ InitCommonNoComponents
    /\ automaticReconnection = TRUE
    /\ \E w \in WaitConfigs : minWait = w[1] /\ maxWait = w[2]
    /\ pingIntervalSecs = kDefaultPingIntervalSecs
    /\ backpressureThreshold = 0

ClientHandshakeInit ==
    /\ InitIdle /\ SocketIdle /\ PoolIdle
    /\ ConfigIdle /\ PollIdle /\ ProxyIdle /\ IoIdle /\ ExtIdle
    /\ hsIn \in ClientInputs /\ hsOut = NoResult

ClientHandshakeSpec == ClientHandshakeInit /\ [][clientHandshake]_vars

ServerHandshakeInit ==
    /\ InitIdle /\ SocketIdle /\ PoolIdle
    /\ ConfigIdle /\ PollIdle /\ ProxyIdle /\ IoIdle /\ ExtIdle
    /\ hsIn \in ServerInputs /\ hsOut = NoResult

ServerHandshakeSpec == ServerHandshakeInit /\ [][serverHandshake]_vars

Lowered(str) == [i \in 1..Len(str) |-> ToLower(str[i])]

ClientCalled == hsOut.done /\ hsIn.side = "client"

\* C13: when no socket operation fails, clientHandshake succeeds exactly when
\* the response has version HTTP/1.1, status 101, a Connection header equal
\* to "Upgrade" ignoring case and the accept value derived from the key sent,
\* and the deflate engine initialises when deflate was requested and
\* accepted; when deflate was requested and not accepted a successful
\* handshake leaves deflate disabled.
C13_ClientHandshakeIff ==
    (ClientCalled /\ hsIn.io = "none") =>
        /\ hsOut.success <=>
              /\ hsIn.httpVersion = "HTTP/1.1"
              /\ hsIn.status = 101
              /\ hsIn.connection # Absent
              /\ Lowered(hsIn.connection) = S_upgrade
              /\ hsIn.accept = KeyGen(hsIn.key)
              /\ (hsIn.enableDeflate /\ hsIn.extensions = S_deflate) => hsIn.initOk
        /\ (hsIn.enableDeflate /\ hsIn.extensions # S_deflate /\ hsOut.success)
              => ~hsOut.enablePerMessageDeflate
        /\ (hsOut.success /\ hsOut.enablePerMessageDeflate)
              => (hsIn.enableDeflate /\ hsIn.extensions = S_deflate)

C13_Witness ==
    /\ ClientCalled /\ hsIn.io = "none"
    /\ hsOut.success
    /\ hsIn.connection = S_upgrade
    /\ hsIn.enableDeflate /\ hsIn.extensions = Absent
    /\ ~hsOut.enablePerMessageDeflate

\* Header names owned by the handshake engine.
ReservedNames == {"Upgrade", "Connection", "Sec-WebSocket-Version",
                  "Sec-WebSocket-Key", "Sec-WebSocket-Protocol",
                  "Sec-WebSocket-Extensions", "Sec-WebSocket-Accept"}

\* C17: the upgrade request clientHandshake writes holds no reserved header
\* line whose value came from the application's extra headers.
C17_ReservedHeadersOwned ==
    ClientCalled =>
        \A i \in 1..Len(hsOut.written) :
            hsOut.written[i].name \in ReservedNames
                => hsOut.written[i].from = "engine"

ServerCalled == hsOut.done /\ hsIn.side = "server"

\* The check of the request that the claimed order makes fail first.
FirstFailing(in) ==
    IF in.method # "GET" THEN "Invalid HTTP method"
    ELSE IF in.httpVersion # "HTTP/1.1" THEN "Invalid HTTP version"
    ELSE IF in.key = Absent THEN "Missing Sec-WebSocket-Key value"
    ELSE IF in.upgrade = Absent THEN "Missing Upgrade header"
    ELSE IF Lowered(in.upgrade) # S_websocket /\ in.upgrade # S_firefox
         THEN "Invalid Upgrade header"
    ELSE IF in.version = Absent THEN "Missing Sec-WebSocket-Version value"
    ELSE IF in.version # <<"1", "3">> THEN "Invalid Sec-WebSocket-Version"
    ELSE "none"

Wrote101 ==
    \E i \in 1..Len(hsOut.written) :
        hsOut.written[i].code = 101 /\ hsOut.written[i].delivered

\* C14: when no socket operation fails, serverHandshake writes the 101
\* response and succeeds exactly when the method is GET, the version is
\* HTTP/1.1, Sec-WebSocket-Key is present, Upgrade is present and is
\* "websocket" ignoring case or exactly "keep-alive, Upgrade", and
\* Sec-WebSocket-Version is 13; otherwise the rejection is that of the first
\* of these checks that fails.
C14_ServerHandshakeIff ==
    (ServerCalled /\ hsIn.io = "none" /\ hsIn.writeOk) =>
        /\ (hsOut.success /\ Wrote101) <=> FirstFailing(hsIn) = "none"
        /\ FirstFailing(hsIn) # "none" =>
              /\ ~hsOut.success
              /\ hsOut.written # << >>
              /\ hsOut.written[1].reason = FirstFailing(hsIn)

Attempted101 ==
    \E i \in 1..Len(hsOut.written) : hsOut.written[i].code = 101

\* C15: a serverHandshake call that returns failure has written no 101
\* response and, unless the failure is that of writing the 101 response
\* itself, has written an error response with a 4xx or 5xx status (or has
\* attempted to and reports 500).
C15_FailureWritesError ==
    (ServerCalled /\ ~hsOut.success) =>
        /\ ~Wrote101
        /\ \/ Attempted101
           \/ /\ hsOut.written # << >>
              /\ hsOut.written[1].code \in 400..599
              /\ hsOut.written[1].delivered \/ hsOut.http_status = 500

\* The names of a comma-separated list.
RECURSIVE SplitEntries(_, _)
SplitEntries(str, cur) ==
    IF str = << >> THEN {cur}
    ELSE IF Head(str) = "," THEN {cur} \cup SplitEntries(Tail(str), << >>)
    ELSE SplitEntries(Tail(str), Append(cur, Head(str)))

\* The first name of the server's list that is one of the client's names.
RECURSIVE FirstWholeMatch(_, _)
FirstWholeMatch(subProtocols, clientNames) ==
    IF subProtocols = << >> THEN << >>
    ELSE IF Head(subProtocols) \in clientNames THEN Head(subProtocols)
    ELSE FirstWholeMatch(Tail(subProtocols), clientNames)

ProtocolHeaders ==
    {i \in 1..Len(hsOut.written[1].lines) :
        hsOut.written[1].lines[i].name = "Sec-WebSocket-Protocol"}

\* C16: a successful serverHandshake selects the first name of the server's
\* list that equals a whole name of the client's comma-separated list, and
\* none when there is no such name or either side offers none; the response
\* holds a Sec-WebSocket-Protocol header, with the selected name, exactly
\* when one is selected, and never more than one.
C16_WholeNameSelected ==
    (ServerCalled /\ hsOut.success) =>
        LET expected ==
                IF hsIn.protocols = Absent THEN << >>
                ELSE FirstWholeMatch(hsIn.subProtocols,
                                     SplitEntries(hsIn.protocols, << >>))
        IN /\ hsOut.protocol = expected
           /\ Cardinality(ProtocolHeaders) = (IF expected = << >> THEN 0 ELSE 1)
           /\ \A i \in ProtocolHeaders :
                  hsOut.written[1].lines[i].value = expected

\* ------------------------------------------------------------------ socket
\* Socket::connect, connectThroughProxy and close.

ProxyTypes == {"None", "Http", "Https", "Socks5"}
ProxyHosts == {<< >>, <<"p">>}
ProxyPorts == {-1, 0, 8080}
ProxyConfigs == [type : ProxyTypes, host : ProxyHosts, port : ProxyPorts]

\* ProxyConfig::isEnabled
isEnabled(proxy) == proxy.type # "None" /\ proxy.host # << >> /\ proxy.port > 0

Fd == 3                      \* a descriptor SocketConnect::connect returns
\* What locking a std::mutex by the thread that owns it can do: it is
\* undefined behaviour; the call blocks forever, throws std::system_error,
\* or goes on where the mutex is a no-op.
RelockOutcomes == {"deadlock", "exception", "proceed"}

\* Socket::isOpen
isOpen == sock.sockfd # -1

\* A Socket before connect, with its proxy configuration set.
SocketInit ==
    /\ InitIdle /\ HandshakeIdle /\ PoolIdle
    /\ ConfigIdle /\ PollIdle /\ ProxyIdle /\ IoIdle /\ ExtIdle
    /\ \E proxy \in ProxyConfigs :
        sock = [pc |-> "idle", sockfd |-> -1, socketMutex |-> FALSE,
                proxyConfig |-> proxy, peer |-> "none", result |-> "none",
                proxyFailed |-> FALSE]

SocketUnchanged ==
    UNCHANGED <<handshakeVars, poolVars, auxVars, configVars, senderVars, appVars,
                envVars, supervisorVars, readyState, requestInitCancellation,
                stop, stats, buffered>>

\* Socket::connect: lock_guard on _socketMutex
Socket_connect_lock ==
    /\ sock.pc = "idle"
    /\ ~sock.socketMutex
    /\ sock' = [sock EXCEPT !.pc = "clear", !.socketMutex = TRUE]
    /\ SocketUnchanged

\* Socket::connect: if (!_selectInterrupt->clear()) return false;
Socket_connect_clear ==
    /\ sock.pc = "clear"
    /\ \E ok \in BOOLEAN :
        sock' = IF ok
                THEN [sock EXCEPT !.pc = "connect"]
                ELSE [sock EXCEPT !.pc = "returned", !.result = "false",
                                  !.socketMutex = FALSE]
    /\ SocketUnchanged

\* Socket::connect without a proxy: SocketConnect::connect to the target
Socket_connect_direct ==
    /\ sock.pc = "connect"
    /\ ~isEnabled(sock.proxyConfig)
    /\ \E fd \in {-1, Fd} :
        sock' = [sock EXCEPT !.pc = "returned", !.sockfd = fd,
                             !.peer = IF fd # -1 THEN "target" ELSE "none",
                             !.result = IF fd # -1 THEN "true" ELSE "false",
                             !.socketMutex = FALSE]
    /\ SocketUnchanged

\* Socket::connectThroughProxy: SocketConnect::connect to the proxy
connectThroughProxy_connect ==
    /\ sock.pc = "connect"
    /\ isEnabled(sock.proxyConfig)
    /\ \E fd \in {-1, Fd} :
        sock' = IF fd = -1
                THEN [sock EXCEPT !.pc = "returned", !.sockfd = -1,
                                  !.result = "false", !.socketMutex = FALSE]
                ELSE [sock EXCEPT !.pc = "proxy", !.sockfd = fd,
                                  !.peer = "proxy"]
    /\ SocketUnchanged

\* Socket::connectThroughProxy: ProxyConnect::connect over the descriptor
connectThroughProxy_handshake ==
    /\ sock.pc = "proxy"
    /\ \E ok \in BOOLEAN :
        sock' = IF ok
                THEN [sock EXCEPT !.pc = "returned", !.peer = "tunnel",
                                  !.result = "true", !.socketMutex = FALSE]
                ELSE [sock EXCEPT !.pc = "close", !.proxyFailed = TRUE]
    /\ SocketUnchanged

\* Socket::close called by connectThroughProxy: lock_guard on _socketMutex
\* while Socket::connect holds it on the same thread.
Socket_close_relock ==
    /\ sock.pc = "close"
    /\ sock.socketMutex
    /\ \E outcome \in RelockOutcomes :
        sock' = CASE outcome = "deadlock" ->
                        [sock EXCEPT !.pc = "blocked"]
                  [] outcome = "exception" ->
                        [sock EXCEPT !.pc = "returned", !.result = "exception",
                                     !.socketMutex = FALSE]
                  [] outcome = "proceed" ->
                        [sock EXCEPT !.pc = "returned", !.sockfd = -1,
                                     !.peer = "none", !.result = "false",
                                     !.socketMutex = FALSE]
    /\ SocketUnchanged

SocketNext ==
    \/ Socket_connect_lock
    \/ Socket_connect_clear
    \/ Socket_connect_direct
    \/ connectThroughProxy_connect
    \/ connectThroughProxy_handshake
    \/ Socket_close_relock

SocketSpec == SocketInit /\ [][SocketNext]_vars

\* C18: with a proxy enabled, a connect whose proxy handshake fails returns
\* false with the socket closed (isOpen() false); without a proxy a
\* successful connect is connected to the target.
C18_ProxyFailureClosed ==
    /\ sock.proxyFailed =>
          /\ isEnabled(sock.proxyConfig)
          /\ sock.pc # "blocked"
          /\ sock.pc = "returned" => (sock.result = "false" /\ ~isOpen)
    /\ (sock.pc = "returned" /\ ~isEnabled(sock.proxyConfig)
            /\ sock.result = "true") => sock.peer = "target"

\* --------------------------------------------------------- connection pool
\* HttpConnectionPool: acquire, release and cleanup, called by NCallers
\* threads that own at most one socket each.

NCallers == 2
NSockets == 2
MaxPerHost == 2              \* largest _maxConnectionsPerHost configured
idleTimeoutSecs == 1         \* _idleTimeoutSecs
TicksPerSec == 2             \* resolution of the clock below one second
MaxTime == 3                 \* last tick of the clock

Callers == 1..NCallers
Sockets == 1..NSockets

\* std::to_string of a non-negative int
RECURSIVE to_string(_)
to_string(n) ==
    IF n < 10 THEN <<DigitChars[n + 1]>>
    ELSE to_string(n \div 10) \o <<DigitChars[(n % 10) + 1]>>

\* HttpConnectionPool::makeKey
makeKey(host, port, tls) ==
    host \o <<":">> \o to_string(port)
         \o (IF tls THEN <<":", "t", "l", "s">> ELSE << >>)

Targets ==
    {[host |-> <<"h">>, port |-> 80, tls |-> FALSE],
     [host |-> <<"h">>, port |-> 80, tls |-> TRUE]}
TargetKey(t) == makeKey(t.host, t.port, t.tls)
PoolKeys == {TargetKey(t) : t \in Targets}

PooledConnection(s, t) == [socket |-> s, lastUsed |-> t]

\* The sockets a list of connections holds.
SocketsOf(connections) ==
    {connections[i].socket : i \in 1..Len(connections)}
Pooled == UNION {SocketsOf(pool[k]) : k \in PoolKeys}

\* duration_cast<seconds>(now - lastUsed).count()
Elapsed(conn) == (now - conn.lastUsed) \div TicksPerSec

\* cleanup, the remove_if predicate
Expired(conn) ==
    \/ Elapsed(conn) > idleTimeoutSecs
    \/ conn.socket = 0
    \/ sockState[conn.socket] # "open"

\* cleanup: std::remove_if + erase on one list
RECURSIVE RemoveExpired(_)
RemoveExpired(connections) ==
    IF connections = << >> THEN << >>
    ELSE IF Expired(Head(connections)) THEN RemoveExpired(Tail(connections))
    ELSE <<Head(connections)>> \o RemoveExpired(Tail(connections))

\* HttpConnectionPool::cleanup
cleanup == [k \in PoolKeys |-> RemoveExpired(pool[k])]

\* acquire, lines 98-111: pop from the back until an open socket is found.
RECURSIVE PopValid(_)
PopValid(connections) ==
    IF connections = << >> THEN [socket |-> 0, rest |-> << >>]
    ELSE LET back == connections[Len(connections)]
             rest == SubSeq(connections, 1, Len(connections) - 1)
         IN IF back.socket # 0 /\ sockState[back.socket] = "open"
            THEN [socket |-> back.socket, rest |-> rest]
            ELSE PopValid(rest)

NoAcquire == [socket |-> 0, pooled |-> FALSE]

PoolInit ==
    /\ InitIdle /\ HandshakeIdle /\ SocketIdle
    /\ ConfigIdle /\ PollIdle /\ ProxyIdle /\ IoIdle /\ ExtIdle
    /\ pool = [k \in PoolKeys |-> << >>]
    /\ poolMutex = 0
    /\ poolPc = [c \in Callers |-> "idle"]
    /\ poolKey = [c \in Callers |-> << >>]
    /\ held = [c \in Callers |-> 0]
    /\ sockState = [s \in Sockets |-> "unused"]
    /\ now = 0
    /\ releasedUnder = [s \in Sockets |-> << >>]
    /\ lastAcquire = NoAcquire
    /\ lastRelease = [socket |-> 0, outcome |-> "none"]
    /\ maxConnectionsPerHost \in 1..MaxPerHost

PoolUnchanged ==
    UNCHANGED <<maxConnectionsPerHost, handshakeVars, socketVars, auxVars,
                configVars,
                senderVars, appVars, envVars, supervisorVars, readyState,
                requestInitCancellation, stop, stats, buffered>>

\* Destroying the unique_ptrs of a set of sockets closes them.
Destroy(gone) ==
    [s \in Sockets |-> IF s \in gone THEN "destroyed" ELSE sockState[s]]

\* acquire: std::lock_guard on _mutex
acquire_lock(c, t) ==
    /\ poolPc[c] = "idle"
    /\ held[c] = 0
    /\ poolMutex = 0
    /\ poolMutex' = c
    /\ poolPc' = [poolPc EXCEPT ![c] = "acquire"]
    /\ poolKey' = [poolKey EXCEPT ![c] = TargetKey(t)]
    /\ UNCHANGED <<pool, held, sockState, now, releasedUnder, lastAcquire, lastRelease>>
    /\ PoolUnchanged

\* acquire, lines 94-114, with the mutex held: cleanup, then the pooled
\* socket at the back of the key's list, else createSocket (a new socket,
\* not connected, or null when it fails).
acquire_body(c) ==
    /\ poolPc[c] = "acquire"
    /\ poolMutex = c
    /\ LET key == poolKey[c]
           cleaned == cleanup
           found == PopValid(cleaned[key])
           after == [cleaned EXCEPT ![key] = found.rest]
           kept == UNION {SocketsOf(after[k]) : k \in PoolKeys}
       IN IF found.socket # 0
          THEN /\ pool' = after
               /\ held' = [held EXCEPT ![c] = found.socket]
               /\ sockState' = Destroy(Pooled \ (kept \cup {found.socket}))
               /\ lastAcquire' =
                    [socket |-> found.socket, pooled |-> TRUE, caller |-> c,
                     key |-> key,
                     releasedUnder |-> releasedUnder[found.socket],
                     open |-> sockState[found.socket] = "open",
                     candidates |-> [i \in 1..Len(cleaned[key]) |->
                                        cleaned[key][i].socket],
                     idle |-> now - (CHOOSE conn \in
                                        {pool[key][i] : i \in 1..Len(pool[key])} :
                                        conn.socket = found.socket).lastUsed]
          ELSE /\ pool' = after
               /\ \E s \in {0} \cup {x \in Sockets : sockState[x] = "unused"} :
                    /\ held' = [held EXCEPT ![c] = s]
                    /\ sockState' =
                         [x \in Sockets |->
                            IF x = s THEN "closed" ELSE Destroy(Pooled \ kept)[x]]
                    /\ lastAcquire' = [socket |-> s, pooled |-> FALSE]
    /\ poolMutex' = 0
    /\ poolPc' = [poolPc EXCEPT ![c] = "idle"]
    /\ UNCHANGED <<poolKey, now, releasedUnder, lastRelease>>
    /\ PoolUnchanged

\* release, line 122: a null or closed socket is dropped before the lock.
release_enter(c, t) ==
    /\ poolPc[c] = "idle"
    /\ IF held[c] = 0 \/ sockState[held[c]] # "open"
       THEN /\ held' = [held EXCEPT ![c] = 0]
            /\ sockState' = Destroy({held[c]} \ {0})
            /\ lastRelease' = [socket |-> held[c],
                               outcome |-> IF held[c] = 0 THEN "null" ELSE "closed"]
            /\ UNCHANGED <<poolPc, poolKey>>
       ELSE /\ poolPc' = [poolPc EXCEPT ![c] = "release"]
            /\ poolKey' = [poolKey EXCEPT ![c] = TargetKey(t)]
            /\ UNCHANGED <<held, sockState, lastRelease>>
    /\ UNCHANGED <<pool, poolMutex, now, releasedUnder, lastAcquire>>
    /\ PoolUnchanged

\* release: std::lock_guard on _mutex
release_lock(c) ==
    /\ poolPc[c] = "release"
    /\ poolMutex = 0
    /\ poolMutex' = c
    /\ poolPc' = [poolPc EXCEPT ![c] = "release_locked"]
    /\ UNCHANGED <<pool, poolKey, held, sockState, now, releasedUnder, lastAcquire, lastRelease>>
    /\ PoolUnchanged

\* release that pushes back without looking at the size of the list.
release_body_noLimit(c) ==
    /\ poolPc[c] = "release_locked"
    /\ poolMutex = c
    /\ pool' = [pool EXCEPT
                   ![poolKey[c]] = Append(pool[poolKey[c]],
                                          PooledConnection(held[c], now))]
    /\ releasedUnder' = [releasedUnder EXCEPT ![held[c]] = poolKey[c]]
    /\ lastRelease' = [socket |-> held[c], outcome |-> "stored",
                       key |-> poolKey[c]]
    /\ held' = [held EXCEPT ![c] = 0]
    /\ poolMutex' = 0
    /\ poolPc' = [poolPc EXCEPT ![c] = "idle"]
    /\ UNCHANGED <<sockState, poolKey, now, lastAcquire>>
    /\ PoolUnchanged

\* release, lines 125-133, with the mutex held: drop when the list is full,
\* else push back with the current time.
release_body(c) ==
    /\ poolPc[c] = "release_locked"
    /\ poolMutex = c
    /\ LET key == poolKey[c]
           connections == pool[key]
       IN IF Len(connections) >= maxConnectionsPerHost
          THEN /\ sockState' = Destroy({held[c]})
               /\ lastRelease' = [socket |-> held[c], outcome |-> "full",
                                  key |-> key]
               /\ UNCHANGED <<pool, releasedUnder>>
          ELSE /\ pool' = [pool EXCEPT
                              ![key] = Append(connections,
                                              PooledConnection(held[c], now))]
               /\ releasedUnder' = [releasedUnder EXCEPT ![held[c]] = key]
               /\ lastRelease' = [socket |-> held[c], outcome |-> "stored",
                                  key |-> key]
               /\ UNCHANGED sockState
    /\ held' = [held EXCEPT ![c] = 0]
    /\ poolMutex' = 0
    /\ poolPc' = [poolPc EXCEPT ![c] = "idle"]
    /\ UNCHANGED <<poolKey, now, lastAcquire>>
    /\ PoolUnchanged

\* The caller connects the socket it owns (Socket::connect succeeds).
Caller_connect(c) ==
    /\ poolPc[c] = "idle"
    /\ held[c] # 0
    /\ sockState[held[c]] = "closed"
    /\ sockState' = [sockState EXCEPT ![held[c]] = "open"]
    /\ UNCHANGED <<pool, poolMutex, poolPc, poolKey, held, now, releasedUnder,
                   lastAcquire, lastRelease>>
    /\ PoolUnchanged

\* The caller closes the socket it owns (Socket::close).
Caller_close(c) ==
    /\ poolPc[c] = "idle"
    /\ held[c] # 0
    /\ sockState[held[c]] = "open"
    /\ sockState' = [sockState EXCEPT ![held[c]] = "closed"]
    /\ UNCHANGED <<pool, poolMutex, poolPc, poolKey, held, now, releasedUnder,
                   lastAcquire, lastRelease>>
    /\ PoolUnchanged

\* std::chrono::steady_clock advances.
Tick ==
    /\ now < MaxTime
    /\ now' = now + 1
    /\ UNCHANGED <<pool, poolMutex, poolPc, poolKey, held, sockState,
                   releasedUnder, lastAcquire, lastRelease>>
    /\ PoolUnchanged

PoolNext ==
    \/ \E c \in Callers, t \in Targets : acquire_lock(c, t) \/ release_enter(c, t)
    \/ \E c \in Callers :
        \/ acquire_body(c)
        \/ release_lock(c)
        \/ release_body(c)
        \/ Caller_connect(c)
        \/ Caller_close(c)
    \/ Tick

PoolSpec == PoolInit /\ [][PoolNext]_vars

\* Every socket has one owner: a caller or one place in the pool.
SingleOwner ==
    /\ \A c1, c2 \in Callers :
          (c1 # c2 /\ held[c1] # 0) => held[c1] # held[c2]
    /\ \A c \in Callers : held[c] # 0 => held[c] \notin Pooled
    /\ \A k1, k2 \in PoolKeys : \A i \in 1..Len(pool[k1]), j \in 1..Len(pool[k2]) :
          pool[k1][i].socket = pool[k2][j].socket => (k1 = k2 /\ i = j)

\* What acquire promises about a socket it takes from the pool, but for the
\* time it has been idle.
AcquiredFromPool ==
    lastAcquire.pooled =>
        /\ lastAcquire.releasedUnder = lastAcquire.key
        /\ lastAcquire.open
        /\ held[lastAcquire.caller] = lastAcquire.socket
              => lastAcquire.socket \notin Pooled

\* C19: a socket acquire takes from the pool was released under the same
\* key, is open, has been idle for no longer than idleTimeoutSecs and is no
\* longer in the pool; no socket is owned by two callers, or by a caller and
\* the pool, whatever the interleaving of acquire and release calls.
C19_AcquireFromPool ==
    /\ AcquiredFromPool
    /\ lastAcquire.pooled => lastAcquire.idle <= idleTimeoutSecs * TicksPerSec
    /\ SingleOwner

\* A release call of caller c returns having dropped its socket.
ReleaseDrops(c) ==
    \/ /\ poolPc[c] = "release_locked"
       /\ Len(pool[poolKey[c]]) >= maxConnectionsPerHost
       /\ poolPc'[c] = "idle"
    \/ /\ poolPc[c] = "idle"
       /\ held[c] # 0 /\ sockState[held[c]] # "open"
       /\ held'[c] = 0
    \/ /\ poolPc[c] = "idle"
       /\ held[c] = 0
       /\ lastRelease.outcome # "null" /\ lastRelease'.outcome = "null"

C21_AcquireOldest ==
    lastAcquire.pooled => lastAcquire.socket = lastAcquire.candidates[1]


\* ------------------------------------------------- configuration accesses
\* The options a WebSocket is configured with, the application thread that
\* calls their setters and the supervisor thread that reads them in
\* checkConnection() and connect().  cfg.mutex is _configMutex; cfg.accesses
\* records each read and write of an option with the owner of _configMutex
\* at that moment.
MaxSets == 2
MaxConnects == 2
Options == {"url", "extraHeaders", "proxyConfig", "perMessageDeflateOptions",
            "timeouts", "subProtocols", "maxWaitBetweenReconnectionRetries",
            "minWaitBetweenReconnectionRetries"}

Access(by, option, kind) ==
    [by |-> by, option |-> option, kind |-> kind, holder |-> cfg.mutex]

ConfigInit ==
    /\ InitIdle /\ HandshakeIdle /\ SocketIdle /\ PoolIdle
    /\ PollIdle /\ ProxyIdle /\ IoIdle /\ ExtIdle
    /\ cfg = [pc |-> "configure_lock", mutex |-> "none", app |-> "idle",
              sets |-> 0, connects |-> 0, accesses |-> {}]

ConfigUnchanged ==
    UNCHANGED <<handshakeVars, socketVars, poolVars, sel, px, io, extVars,
                configVars,
                senderVars, appVars, envVars, supervisorVars, readyState,
                requestInitCancellation, stop, stats, buffered>>

\* setUrl, setExtraHeaders, setProxyConfig, setPerMessageDeflateOptions,
\* setTimeouts, addSubProtocol, setMaxWait..., setMinWait...: lock_guard
setter_lock(o) ==
    /\ cfg.app = "idle"
    /\ cfg.sets < MaxSets
    /\ cfg.mutex = "none"
    /\ cfg' = [cfg EXCEPT !.mutex = "app", !.app = o, !.sets = @ + 1]
    /\ ConfigUnchanged

\* the assignment of the setter and the end of its scope
setter_write ==
    /\ cfg.app \in Options
    /\ cfg' = [cfg EXCEPT !.accesses = @ \cup {Access("app", cfg.app, "write")},
                          !.mutex = "none", !.app = "idle"]
    /\ ConfigUnchanged

\* connect(), lines 231-232
connect_configure_lock ==
    /\ cfg.pc = "configure_lock"
    /\ cfg.mutex = "none"
    /\ cfg' = [cfg EXCEPT !.mutex = "supervisor", !.pc = "configure"]
    /\ ConfigUnchanged

\* connect(), lines 233-235: _ws.configure reads the options, then the scope
\* of the lock ends
connect_configure ==
    /\ cfg.pc = "configure"
    /\ cfg' = [cfg EXCEPT
                 !.accesses = @ \cup
                     {Access("supervisor", o, "read") :
                        o \in {"perMessageDeflateOptions", "proxyConfig",
                               "timeouts"}},
                 !.mutex = "none", !.pc = "headers"]
    /\ ConfigUnchanged

\* connect(), line 237: headers(_extraHeaders)
connect_copyHeaders ==
    /\ cfg.pc = "headers"
    /\ cfg' = [cfg EXCEPT
                 !.accesses = @ \cup {Access("supervisor", "extraHeaders", "read")},
                 !.pc = "subProtocols_lock"]
    /\ ConfigUnchanged

\* connect(), line 239: getSubProtocols() takes the lock
getSubProtocols_lock ==
    /\ cfg.pc = "subProtocols_lock"
    /\ cfg.mutex = "none"
    /\ cfg' = [cfg EXCEPT !.mutex = "supervisor", !.pc = "subProtocols"]
    /\ ConfigUnchanged

\* getSubProtocols(), lines 747-748
getSubProtocols_read ==
    /\ cfg.pc = "subProtocols"
    /\ cfg' = [cfg EXCEPT
                 !.accesses = @ \cup {Access("supervisor", "subProtocols", "read")},
                 !.mutex = "none", !.pc = "url"]
    /\ ConfigUnchanged

\* connect(), line 260: _ws.connectToUrl(_url, ...); the attempt succeeds or
\* fails
connect_connectToUrl(success) ==
    /\ cfg.pc = "url"
    /\ cfg' = [cfg EXCEPT
                 !.accesses = @ \cup {Access("supervisor", "url", "read")},
                 !.connects = @ + 1,
                 !.pc = IF success THEN "done" ELSE "bounds"]
    /\ ConfigUnchanged

\* checkConnection(), lines 379-385: the wait before the next attempt is
\* computed from the reconnection bounds
checkConnection_bounds ==
    /\ cfg.pc = "bounds"
    /\ cfg' = [cfg EXCEPT
                 !.accesses = @ \cup
                     {Access("supervisor", o, "read") :
                        o \in IF automaticReconnection
                              THEN {"maxWaitBetweenReconnectionRetries",
                                    "minWaitBetweenReconnectionRetries"}
                              ELSE {}},
                 !.pc = IF automaticReconnection /\ cfg.connects < MaxConnects
                        THEN "configure_lock"
                        ELSE "done"]
    /\ ConfigUnchanged

ConfigNext ==
    \/ \E o \in Options : setter_lock(o)
    \/ setter_write
    \/ connect_configure_lock
    \/ connect_configure
    \/ connect_copyHeaders
    \/ getSubProtocols_lock
    \/ getSubProtocols_read
    \/ \E success \in BOOLEAN : connect_connectToUrl(success)
    \/ checkConnection_bounds

ConfigSpec == ConfigInit /\ [][ConfigNext]_vars


\* ------------------------------------------------------------ Socket::poll
\* One call of Socket::poll on an open socket, with the select interrupt of
\* the socket.  sel.mode is what the select interrupt offers: a file
\* descriptor, an event, or neither (emulation mode); sel.values is its
\* queue of tokens, which holds a value at most once.
MaxNotifies == 2
kSendRequest == "kSendRequest"
kCloseRequest == "kCloseRequest"
Tokens == {kSendRequest, kCloseRequest}
PollModes == {"fd", "event", "emulation"}
TokenQueues == {<< >>, <<kSendRequest>>, <<kCloseRequest>>,
                <<kSendRequest, kCloseRequest>>,
                <<kCloseRequest, kSendRequest>>}

\* SelectInterrupt::read as IXSelectInterruptEvent.h declares it: the oldest
\* value of the queue, removed, or nothing
SelectInterrupt_read(values) ==
    IF values = << >> THEN [value |-> "nullopt", values |-> values]
    ELSE [value |-> Head(values), values |-> Tail(values)]

\* readSelectInterruptRequest, lines 156-174: the boolean it returns, the
\* poll result it leaves and the queue after the read
readSelectInterruptRequest(values, pollResult) ==
    LET r == SelectInterrupt_read(values) IN
    IF r.value = "nullopt"
    THEN [ok |-> FALSE, pollResult |-> pollResult, values |-> r.values]
    ELSE IF r.value = kSendRequest
    THEN [ok |-> TRUE, pollResult |-> "SendRequest", values |-> r.values]
    ELSE IF r.value = kCloseRequest
    THEN [ok |-> TRUE, pollResult |-> "CloseRequest", values |-> r.values]
    ELSE [ok |-> FALSE, pollResult |-> pollResult, values |-> r.values]

PollInit ==
    /\ InitIdle /\ HandshakeIdle /\ SocketIdle /\ PoolIdle
    /\ ConfigIdle /\ ProxyIdle /\ IoIdle /\ ExtIdle
    /\ \E mode \in PollModes, readyToRead \in BOOLEAN,
          hasTimeout \in BOOLEAN, values \in TokenQueues :
          sel = [pc |-> "start", mode |-> mode, readyToRead |-> readyToRead,
                 hasTimeout |-> hasTimeout, values |-> values,
                 ready |-> FALSE, notifies |-> 0, seen |-> << >>,
                 soError |-> FALSE, pollResult |-> "ReadyForRead"]

PollUnchanged ==
    UNCHANGED <<handshakeVars, socketVars, poolVars, cfg, px, io, extVars,
                configVars,
                senderVars, appVars, envVars, supervisorVars, readyState,
                requestInitCancellation, stop, stats, buffered>>

\* poll, lines 48-92: in emulation mode the select interrupt is read before
\* the wait, and a request found there is returned
Socket_poll_start ==
    /\ sel.pc = "start"
    /\ LET r == readSelectInterruptRequest(sel.values, sel.pollResult) IN
       IF sel.mode = "emulation" /\ r.ok
       THEN sel' = [sel EXCEPT !.pc = "done", !.seen = sel.values,
                               !.pollResult = r.pollResult,
                               !.values = r.values]
       ELSE sel' = [sel EXCEPT !.pc = "wait",
                               !.values = IF sel.mode = "emulation"
                                          THEN r.values ELSE @]
    /\ PollUnchanged

\* SelectInterrupt::notify from another thread while poll waits; a value
\* already queued is ignored
SelectInterrupt_notify(v) ==
    /\ sel.pc = "wait"
    /\ sel.notifies < MaxNotifies
    /\ sel' = [sel EXCEPT !.notifies = @ + 1,
                          !.values = IF \E k \in 1..Len(@) : @[k] = v
                                     THEN @ ELSE Append(@, v)]
    /\ PollUnchanged

\* the socket becomes readable (writable) while poll waits
Socket_ready ==
    /\ sel.pc = "wait"
    /\ ~sel.ready
    /\ sel' = [sel EXCEPT !.ready = TRUE]
    /\ PollUnchanged

\* poll, lines 94-98: ix::poll fails
Socket_poll_error ==
    /\ sel.pc = "wait"
    /\ sel' = [sel EXCEPT !.pc = "done", !.seen = sel.values,
                          !.pollResult = "Error"]
    /\ PollUnchanged

\* poll, lines 99-109: ix::poll returns 0, nothing it watches was ready
\* before the timeout; the interrupt is watched unless in emulation mode
Socket_poll_timeout ==
    /\ sel.pc = "wait"
    /\ sel.hasTimeout
    /\ ~sel.ready
    /\ sel.mode = "emulation" \/ sel.values = << >>
    /\ LET r == readSelectInterruptRequest(sel.values, "Timeout") IN
       sel' = IF sel.mode = "emulation"
              THEN [sel EXCEPT !.pc = "done", !.seen = sel.values,
                               !.pollResult = r.pollResult,
                               !.values = r.values]
              ELSE [sel EXCEPT !.pc = "done", !.seen = sel.values,
                               !.pollResult = "Timeout"]
    /\ PollUnchanged

\* poll, lines 110-114: ix::poll reports the interrupt (its descriptor is
\* readable, or its event was signaled)
Socket_poll_interrupted ==
    /\ sel.pc = "wait"
    /\ sel.mode # "emulation"
    /\ sel.values # << >>
    /\ LET r == readSelectInterruptRequest(sel.values, sel.pollResult) IN
       sel' = [sel EXCEPT !.pc = "done", !.seen = sel.values,
                          !.pollResult = r.pollResult, !.values = r.values]
    /\ PollUnchanged

\* poll, lines 110-114, while another poll of the same socket (isReadyToRead
\* of the receiving thread, isReadyToWrite of a writing one, lines 373, 391
\* and 466) shares the select interrupt: ix::poll reports the interrupt to
\* both, the other call reads the oldest token first, and this call reads
\* what is left
Socket_poll_interrupted_late ==
    /\ sel.pc = "wait"
    /\ sel.mode # "emulation"
    /\ sel.values # << >>
    /\ LET left == SelectInterrupt_read(sel.values).values
           r == readSelectInterruptRequest(left, sel.pollResult)
       IN
       sel' = [sel EXCEPT !.pc = "done", !.seen = left,
                          !.pollResult = r.pollResult, !.values = r.values]
    /\ PollUnchanged

\* poll, lines 115-151: ix::poll reports the socket only; SO_ERROR tells a
\* failed connect from a writable socket
Socket_poll_ready(soError) ==
    /\ sel.pc = "wait"
    /\ sel.ready
    /\ sel.mode = "emulation" \/ sel.values = << >>
    /\ sel' = [sel EXCEPT !.pc = "done", !.seen = sel.values,
                          !.soError = soError,
                          !.pollResult =
                              IF sel.readyToRead THEN "ReadyForRead"
                              ELSE IF soError THEN "Error"
                              ELSE "ReadyForWrite"]
    /\ PollUnchanged

PollNext ==
    \/ Socket_poll_start
    \/ \E v \in Tokens : SelectInterrupt_notify(v)
    \/ Socket_ready
    \/ Socket_poll_error
    \/ Socket_poll_timeout
    \/ Socket_poll_interrupted
    \/ Socket_poll_interrupted_late
    \/ \E soError \in BOOLEAN : Socket_poll_ready(soError)

PollSpec == PollInit /\ [][PollNext]_vars


\* ------------------------------------------------------------ ProxyConnect
\* One proxy handshake on a socket connected to the proxy: ProxyConnect::
\* connect and, under it, httpConnect or socks5Connect.  px.log lists the
\* messages sent and awaited so far, each with whether the raw send or
\* receive succeeded; px.cancel is the value the cancellation predicate
\* returns; px.cause keeps why the call failed.
MaxHeaders == 1

S_CRLF == <<"\r", "\n">>
S_HTTP1 == <<"H", "T", "T", "P", "/", "1", ".">>
StatusLines ==
    {S_HTTP1 \o <<"1", " ", "2", "0", "0", " ", "O", "K">> \o S_CRLF,
     S_HTTP1 \o <<"0", " ", "2", "0", "0">> \o S_CRLF,
     S_HTTP1 \o <<"1", " ", "4", "0", "7", " ", "A">> \o S_CRLF,
     S_HTTP1 \o <<"1", " ", "2", "0">> \o S_CRLF,
     S_HTTP1 \o <<"1", " ", " ", "2", "0", "0">> \o S_CRLF,
     S_HTTP1 \o <<"1", " ", "-", "1", "2">> \o S_CRLF,
     S_HTTP1 \o <<"1", " ", "a", "b", "c">> \o S_CRLF,
     S_HTTP1 \o <<"1">> \o S_CRLF,
     <<"H", "T", "T", "P", "/", "2", " ", "2", "0", "0", " ", "O", "K">> \o S_CRLF,
     <<"2", "0", "0", " ", "O", "K", " ", "H", "T", "T", "P", "/", "1", ".">>
        \o S_CRLF}

\* std::string::substr(pos, n) for pos <= size
substr(str, pos, n) ==
    SubSeq(str, pos + 1, Min(pos + n, Len(str)))

IsSpace(c) == c \in {" ", "\t", "\n", "\r"}

RECURSIVE SkipSpaces(_)
SkipSpaces(str) ==
    IF str # << >> /\ IsSpace(Head(str)) THEN SkipSpaces(Tail(str)) ELSE str

\* std::stoi: leading white space is skipped, a sign is accepted, the digits
\* that follow are converted; with no digit there std::invalid_argument is
\* thrown
stoi(str) ==
    LET s1 == SkipSpaces(str)
        signed == s1 # << >> /\ Head(s1) \in {"+", "-"}
        s2 == IF signed THEN Tail(s1) ELSE s1
    IN  IF s2 = << >> \/ ~IsDigit(Head(s2))
        THEN [thrown |-> TRUE, value |-> 0]
        ELSE [thrown |-> FALSE,
              value |-> IF signed /\ Head(s1) = "-" THEN 0 - ParseInt(s2)
                        ELSE ParseInt(s2)]

\* std::to_string(int)
int_to_string(n) == IF n < 0 THEN <<"-">> \o to_string(0 - n) ELSE to_string(n)

\* Variant of StatusField that takes the status one character early.
StatusField_early(statusLine) == substr(statusLine, 8, 3)

\* httpConnect, line 529: the characters the status is parsed from
StatusField(statusLine) == substr(statusLine, 9, 3)

\* httpConnect, lines 526-530: statusCode stays 0 unless the line starts with
\* "HTTP/1." and has 12 characters or more
StatusCode(statusLine) ==
    IF Len(statusLine) >= Len(S_HTTP1)
       /\ SubSeq(statusLine, 1, Len(S_HTTP1)) = S_HTTP1
       /\ Len(statusLine) >= 12
    THEN stoi(StatusField(statusLine))
    ELSE [thrown |-> FALSE, value |-> 0]

\* SOCKS5 replies of the proxy
MethodReplies == {[ver |-> v, method |-> m] : v \in {4, 5}, m \in {0, 2, 255}}
AuthReplies == {[ver |-> 1, status |-> st] : st \in {0, 1}}
ConnectReplies ==
    {[ver |-> v, rep |-> r, atyp |-> a] :
        v \in {4, 5}, r \in {0, 5, 9}, a \in {0, 1, 3, 4}}
DomainLengths == {0, 1}

\* Variant of MethodAccepted that lets the method 0xFF through.
MethodAccepted_anyMethod(reply) == reply.ver = 5

\* socks5Connect, lines 585-595: the two tests on the method reply
MethodAccepted(reply) == reply.ver = 5 /\ reply.method # 255

\* socks5Connect, lines 667-679
Socks5Errors ==
    <<"succeeded", "general SOCKS server failure",
      "connection not allowed by ruleset", "network unreachable",
      "host unreachable", "connection refused", "TTL expired",
      "command not supported", "address type not supported">>
Socks5Error(errCode) ==
    IF errCode < 9 THEN Socks5Errors[errCode + 1] ELSE "unknown error"

\* rawSend / rawRecv for a non-empty buffer: the predicate is tested before
\* every ::send and ::recv, so a call made while it holds returns false;
\* otherwise the transfer completes or fails
RawOutcomes == IF px.cancel THEN {"cancelled"} ELSE {"ok", "error"}

ProxyInit ==
    /\ InitIdle /\ HandshakeIdle /\ SocketIdle /\ PoolIdle
    /\ ConfigIdle /\ PollIdle /\ IoIdle /\ ExtIdle
    /\ \E type \in ProxyTypes, auth \in BOOLEAN :
          px = [pc |-> "connect", type |-> type, requiresAuth |-> auth,
                cancel |-> FALSE, log |-> << >>, ret |-> "none",
                errMsg |-> << >>, cause |-> "none",
                statusLine |-> << >>, statusCode |-> 0, headers |-> 0,
                method |-> [ver |-> 0, method |-> 0],
                auth |-> [ver |-> 0, status |-> 0],
                reply |-> [ver |-> 0, rep |-> 0, atyp |-> 0],
                len |-> 0]

ProxyUnchanged ==
    UNCHANGED <<handshakeVars, socketVars, poolVars, cfg, sel, io, extVars,
                configVars,
                senderVars, appVars, envVars, supervisorVars, readyState,
                requestInitCancellation, stop, stats, buffered>>

Logged(op, o) == Append(px.log, [op |-> op, ok |-> (o = "ok")])

\* return false after errMsg was set
Failed(log, errMsg, cause) ==
    [px EXCEPT !.pc = "done", !.log = log, !.ret = "false",
               !.errMsg = errMsg, !.cause = cause]

\* return false with errMsg as the caller passed it
FailedSilently(log, cause) ==
    [px EXCEPT !.pc = "done", !.log = log, !.ret = "false", !.cause = cause]

\* the cancellation predicate starts to hold
Proxy_cancel ==
    /\ px.pc \notin {"none", "done"}
    /\ ~px.cancel
    /\ px' = [px EXCEPT !.cancel = TRUE]
    /\ ProxyUnchanged

\* ProxyConnect::connect, lines 474-492
ProxyConnect_connect ==
    /\ px.pc = "connect"
    /\ px' = IF px.type \in {"Http", "Https"}
             THEN [px EXCEPT !.pc = "http_send"]
             ELSE IF px.type = "Socks5"
             THEN [px EXCEPT !.pc = "s5_greeting"]
             ELSE Failed(px.log, <<"Unknown proxy type">>, "protocol")
    /\ ProxyUnchanged

\* httpConnect, lines 501-516: the CONNECT request
httpConnect_send(o) ==
    /\ px.pc = "http_send"
    /\ o \in RawOutcomes
    /\ px' = IF o = "ok"
             THEN [px EXCEPT !.pc = "http_status", !.log = Logged("CONNECT", o)]
             ELSE Failed(Logged("CONNECT", o),
                         <<"Failed to send CONNECT request to proxy">>, o)
    /\ ProxyUnchanged

\* httpConnect, lines 518-523: the status line
httpConnect_statusLine(o, line) ==
    /\ px.pc = "http_status"
    /\ o \in RawOutcomes
    /\ px' = IF o = "ok"
             THEN [px EXCEPT !.pc = "http_parse", !.statusLine = line,
                             !.log = Logged("statusLine", o)]
             ELSE Failed(Logged("statusLine", o),
                         <<"Failed to read proxy response">>, o)
    /\ ProxyUnchanged

\* httpConnect, lines 525-530: the status is parsed; what std::stoi throws
\* leaves httpConnect
httpConnect_parse ==
    /\ px.pc = "http_parse"
    /\ LET parsed == StatusCode(px.statusLine) IN
       px' = IF parsed.thrown
             THEN [px EXCEPT !.pc = "done", !.ret = "exception",
                             !.cause = "protocol"]
             ELSE [px EXCEPT !.pc = "http_headers",
                             !.statusCode = parsed.value]
    /\ ProxyUnchanged

\* httpConnect, lines 532-542: one line of the header block; the loop ends
\* at the line that is a bare CRLF
httpConnect_header(o, bare) ==
    /\ px.pc = "http_headers"
    /\ o \in RawOutcomes
    /\ bare \/ px.headers < MaxHeaders
    /\ px' = IF o # "ok"
             THEN Failed(Logged("header", o),
                         <<"Failed to read proxy headers">>, o)
             ELSE IF bare
             THEN [px EXCEPT !.pc = "http_return", !.log = Logged("CRLF", o)]
             ELSE [px EXCEPT !.headers = @ + 1, !.log = Logged("header", o)]
    /\ ProxyUnchanged

\* httpConnect, lines 544-547
httpConnect_return ==
    /\ px.pc = "http_return"
    /\ px' = IF px.statusCode = 200
             THEN [px EXCEPT !.pc = "done", !.ret = "true"]
             ELSE Failed(px.log,
                         <<"Proxy CONNECT failed with status: ">>
                             \o int_to_string(px.statusCode),
                         "protocol")
    /\ ProxyUnchanged

\* socks5Connect, lines 556-575: the greeting
socks5Connect_greeting(o) ==
    /\ px.pc = "s5_greeting"
    /\ o \in RawOutcomes
    /\ px' = IF o = "ok"
             THEN [px EXCEPT !.pc = "s5_method", !.log = Logged("greeting", o)]
             ELSE Failed(Logged("greeting", o),
                         <<"Failed to send SOCKS5 greeting">>, o)
    /\ ProxyUnchanged

\* socks5Connect, lines 577-604: the method the server chose
socks5Connect_method(o, reply) ==
    /\ px.pc = "s5_method"
    /\ o \in RawOutcomes
    /\ LET log == Logged("methodReply", o) IN
       px' = IF o # "ok"
             THEN Failed(log, <<"Failed to read SOCKS5 greeting response">>, o)
             ELSE IF ~MethodAccepted(reply)
             THEN Failed(log,
                         IF reply.ver # 5
                         THEN <<"Invalid SOCKS5 version in response">>
                         ELSE <<"SOCKS5 server rejected all auth methods">>,
                         "protocol")
             ELSE IF reply.method = 2 /\ ~px.requiresAuth
             THEN Failed(log,
                         <<"SOCKS5 server requires auth but no credentials provided">>,
                         "protocol")
             ELSE [px EXCEPT !.log = log, !.method = reply,
                             !.pc = IF reply.method = 2 THEN "s5_auth_send"
                                    ELSE "s5_connect_send"]
    /\ ProxyUnchanged

\* socks5Connect, lines 606-617: the username/password request
socks5Connect_authRequest(o) ==
    /\ px.pc = "s5_auth_send"
    /\ o \in RawOutcomes
    /\ px' = IF o = "ok"
             THEN [px EXCEPT !.pc = "s5_auth", !.log = Logged("authRequest", o)]
             ELSE Failed(Logged("authRequest", o),
                         <<"Failed to send SOCKS5 auth request">>, o)
    /\ ProxyUnchanged

\* socks5Connect, lines 619-631: the reply to it
socks5Connect_authReply(o, reply) ==
    /\ px.pc = "s5_auth"
    /\ o \in RawOutcomes
    /\ LET log == Logged("authReply", o) IN
       px' = IF o # "ok"
             THEN Failed(log, <<"Failed to read SOCKS5 auth response">>, o)
             ELSE IF reply.status # 0
             THEN Failed(log, <<"SOCKS5 authentication failed">>, "protocol")
             ELSE [px EXCEPT !.log = log, !.auth = reply,
                             !.pc = "s5_connect_send"]
    /\ ProxyUnchanged

\* socks5Connect, lines 633-652: the connect request
socks5Connect_connectRequest(o) ==
    /\ px.pc = "s5_connect_send"
    /\ o \in RawOutcomes
    /\ px' = IF o = "ok"
             THEN [px EXCEPT !.pc = "s5_reply",
                             !.log = Logged("connectRequest", o)]
             ELSE Failed(Logged("connectRequest", o),
                         <<"Failed to send SOCKS5 connect request">>, o)
    /\ ProxyUnchanged

\* socks5Connect, lines 654-685: the connect reply
socks5Connect_connectReply(o, reply) ==
    /\ px.pc = "s5_reply"
    /\ o \in RawOutcomes
    /\ LET log == Logged("connectReply", o) IN
       px' = IF o # "ok"
             THEN Failed(log, <<"Failed to read SOCKS5 connect response">>, o)
             ELSE IF reply.ver # 5
             THEN Failed(log, <<"Invalid SOCKS5 version in connect response">>,
                         "protocol")
             ELSE IF reply.rep # 0
             THEN Failed(log,
                         <<"SOCKS5 connect failed: ", Socks5Error(reply.rep)>>,
                         "protocol")
             ELSE [px EXCEPT !.log = log, !.reply = reply,
                             !.pc = IF reply.atyp \in {1, 4} THEN "s5_addr"
                                    ELSE IF reply.atyp = 3 THEN "s5_len"
                                    ELSE "s5_port"]
    /\ ProxyUnchanged

\* socks5Connect, lines 694-696: the length of a bound domain name
socks5Connect_boundLength(o, len) ==
    /\ px.pc = "s5_len"
    /\ o \in RawOutcomes
    /\ px' = IF o = "ok"
             THEN [px EXCEPT !.pc = "s5_addr", !.len = len,
                             !.log = Logged("boundLength", o)]
             ELSE FailedSilently(Logged("boundLength", o), o)
    /\ ProxyUnchanged

\* socks5Connect, lines 688-703: the bound address; rawRecv of no byte
\* returns true without a test
socks5Connect_boundAddress(o) ==
    /\ px.pc = "s5_addr"
    /\ IF px.reply.atyp = 3 /\ px.len = 0 THEN o = "ok" ELSE o \in RawOutcomes
    /\ px' = IF o = "ok"
             THEN [px EXCEPT !.pc = "s5_port", !.log = Logged("boundAddress", o)]
             ELSE FailedSilently(Logged("boundAddress", o), o)
    /\ ProxyUnchanged

\* socks5Connect, lines 705-712: the bound port
socks5Connect_boundPort(o) ==
    /\ px.pc = "s5_port"
    /\ o \in RawOutcomes
    /\ px' = IF o = "ok"
             THEN [px EXCEPT !.pc = "done", !.ret = "true",
                             !.log = Logged("boundPort", o)]
             ELSE FailedSilently(Logged("boundPort", o), o)
    /\ ProxyUnchanged

Outcomes == {"ok", "error", "cancelled"}

ProxyNext ==
    \/ Proxy_cancel
    \/ ProxyConnect_connect
    \/ \E o \in Outcomes : httpConnect_send(o)
    \/ \E o \in Outcomes, line \in StatusLines : httpConnect_statusLine(o, line)
    \/ httpConnect_parse
    \/ \E o \in Outcomes, bare \in BOOLEAN : httpConnect_header(o, bare)
    \/ httpConnect_return
    \/ \E o \in Outcomes : socks5Connect_greeting(o)
    \/ \E o \in Outcomes, reply \in MethodReplies : socks5Connect_method(o, reply)
    \/ \E o \in Outcomes : socks5Connect_authRequest(o)
    \/ \E o \in Outcomes, reply \in AuthReplies : socks5Connect_authReply(o, reply)
    \/ \E o \in Outcomes : socks5Connect_connectRequest(o)
    \/ \E o \in Outcomes, reply \in ConnectReplies :
          socks5Connect_connectReply(o, reply)
    \/ \E o \in Outcomes, len \in DomainLengths : socks5Connect_boundLength(o, len)
    \/ \E o \in Outcomes : socks5Connect_boundAddress(o)
    \/ \E o \in Outcomes : socks5Connect_boundPort(o)

ProxySpec == ProxyInit /\ [][ProxyNext]_vars


\* -------------------------------------------------- blocking I/O helpers
\* One call of a helper that loops over a non-blocking socket: Socket's
\* writeBytes, readByte, readLine and readBytes, and ProxyConnect's rawSend,
\* rawRecv and rawRecvLine.  io.cancel is the value the cancellation
\* predicate returns (once it holds it keeps holding); io.peer is what the
\* socket does for the next ::send / ::recv: it transfers bytes ("ready"),
\* it would block ("stall"), it would block and its poll fails
\* ("pollError"), or it is closed ("closed").
MaxBytes == 2
maxLineLength == 3    \* 8192 in readLine
Helpers == {"writeBytes", "readByte", "readLine", "readBytes",
            "rawSend", "rawRecv", "rawRecvLine"}
CountedHelpers == {"writeBytes", "readBytes", "rawSend", "rawRecv"}
PeerStates == {"ready", "stall", "pollError", "closed"}
LineChars == {"\r", "\n", "x"}

IoInit ==
    /\ InitIdle /\ HandshakeIdle /\ SocketIdle /\ PoolIdle
    /\ ConfigIdle /\ PollIdle /\ ProxyIdle /\ ExtIdle
    /\ \E helper \in Helpers, len \in 1..MaxBytes, peer \in PeerStates :
          /\ helper \notin CountedHelpers => len = 1
          /\ io = [pc |-> "loop", helper |-> helper, len |-> len, got |-> 0,
                   last |-> "", cancel |-> FALSE, peer |-> peer,
                   ret |-> "none", cause |-> "none"]

IoUnchanged ==
    UNCHANGED <<handshakeVars, socketVars, poolVars, cfg, sel, px, extVars,
                configVars,
                senderVars, appVars, envVars, supervisorVars, readyState,
                requestInitCancellation, stop, stats, buffered>>

\* Variant of Cancelled that never finds the predicate true.
Cancelled_never(predicate) == FALSE

\* "if (isCancellationRequested && isCancellationRequested())", the first
\* statement of every loop body
Cancelled(predicate) == predicate

Returned(ret, cause) ==
    [io EXCEPT !.pc = "done", !.ret = ret, !.cause = cause]

\* the bytes a transfer of n moves: the call returns when all are moved
Moved(n) ==
    IF n = io.len THEN [Returned("true", "none") EXCEPT !.got = @ + n, !.len = 0]
    ELSE [io EXCEPT !.got = @ + n, !.len = @ - n]

\* a line grows by c: it is complete when it ends with CRLF; readLine gives
\* up when it has maxLineLength characters
Appended(c, bounded) ==
    IF io.last = "\r" /\ c = "\n"
    THEN [Returned("true", "none") EXCEPT !.got = @ + 1, !.last = c]
    ELSE IF bounded /\ io.got + 1 >= maxLineLength
    THEN [Returned("false", "length") EXCEPT !.got = @ + 1, !.last = c]
    ELSE [io EXCEPT !.got = IF bounded THEN @ + 1 ELSE @, !.last = c]

\* the cancellation predicate starts to hold
Io_cancel ==
    /\ io.pc = "loop"
    /\ ~io.cancel
    /\ io' = [io EXCEPT !.cancel = TRUE]
    /\ IoUnchanged

\* the socket changes what it does
Io_peer(peer) ==
    /\ io.pc = "loop"
    /\ peer # io.peer
    /\ io' = [io EXCEPT !.peer = peer]
    /\ IoUnchanged

\* Socket::writeBytes, lines 352-377: one turn of the loop
writeBytes_iteration(n) ==
    /\ io.pc = "loop" /\ io.helper = "writeBytes"
    /\ n \in 1..io.len
    /\ io' = IF Cancelled(io.cancel) THEN Returned("false", "cancelled")
             ELSE IF io.peer = "ready" THEN Moved(n)
             ELSE IF io.peer = "stall" THEN io
             ELSE Returned("false", "error")
    /\ IoUnchanged

\* Socket::readByte, lines 379-395: one turn of the loop
readByte_iteration ==
    /\ io.pc = "loop" /\ io.helper = "readByte"
    /\ io' = IF Cancelled(io.cancel) THEN Returned("false", "cancelled")
             ELSE IF io.peer = "ready" THEN Moved(1)
             ELSE IF io.peer = "stall" THEN io
             ELSE Returned("false", "error")
    /\ IoUnchanged

\* Socket::readLine, lines 397-421, with one turn of the loop of the
\* readByte it calls
readLine_iteration(c) ==
    /\ io.pc = "loop" /\ io.helper = "readLine"
    /\ io' = IF Cancelled(io.cancel) THEN Returned("false", "cancelled")
             ELSE IF io.peer = "ready" THEN Appended(c, TRUE)
             ELSE IF io.peer = "stall" THEN io
             ELSE Returned("false", "error")
    /\ IoUnchanged

\* Socket::readBytes, lines 423-475: one turn of the loop
readBytes_iteration(n) ==
    /\ io.pc = "loop" /\ io.helper = "readBytes"
    /\ n \in 1..io.len
    /\ io' = IF Cancelled(io.cancel) THEN Returned("false", "cancelled")
             ELSE IF io.peer = "ready" THEN Moved(n)
             ELSE IF io.peer = "stall" THEN io
             ELSE Returned("false", "error")
    /\ IoUnchanged

\* ProxyConnect::rawSend, lines 390-420: one turn of the loop; EWOULDBLOCK
\* goes straight to the next turn
rawSend_iteration(n) ==
    /\ io.pc = "loop" /\ io.helper = "rawSend"
    /\ n \in 1..io.len
    /\ io' = IF Cancelled(io.cancel) THEN Returned("false", "cancelled")
             ELSE IF io.peer = "ready" THEN Moved(n)
             ELSE IF io.peer \in {"stall", "pollError"} THEN io
             ELSE Returned("false", "error")
    /\ IoUnchanged

\* ProxyConnect::rawRecv, lines 422-456: one turn of the loop; EWOULDBLOCK
\* waits 100 ms in ix::poll, whose result is not looked at
rawRecv_iteration(n) ==
    /\ io.pc = "loop" /\ io.helper = "rawRecv"
    /\ n \in 1..io.len
    /\ io' = IF Cancelled(io.cancel) THEN Returned("false", "cancelled")
             ELSE IF io.peer = "ready" THEN Moved(n)
             ELSE IF io.peer \in {"stall", "pollError"} THEN io
             ELSE Returned("false", "error")
    /\ IoUnchanged

\* ProxyConnect::rawRecvLine, lines 458-472, with one turn of the loop of
\* the rawRecv it calls
rawRecvLine_iteration(c) ==
    /\ io.pc = "loop" /\ io.helper = "rawRecvLine"
    /\ io' = IF Cancelled(io.cancel) THEN Returned("false", "cancelled")
             ELSE IF io.peer = "ready" THEN Appended(c, FALSE)
             ELSE IF io.peer \in {"stall", "pollError"} THEN io
             ELSE Returned("false", "error")
    /\ IoUnchanged

IoIteration ==
    \/ \E n \in 1..MaxBytes : writeBytes_iteration(n)
    \/ readByte_iteration
    \/ \E c \in LineChars : readLine_iteration(c)
    \/ \E n \in 1..MaxBytes : readBytes_iteration(n)
    \/ \E n \in 1..MaxBytes : rawSend_iteration(n)
    \/ \E n \in 1..MaxBytes : rawRecv_iteration(n)
    \/ \E c \in LineChars : rawRecvLine_iteration(c)

IoNext ==
    \/ Io_cancel
    \/ \E peer \in PeerStates : Io_peer(peer)
    \/ IoIteration

IoSpec == IoInit /\ [][IoNext]_vars

\* the thread that called the helper keeps running: a turn of the loop that
\* can change the state of the call is eventually taken
FairIoSpec == IoSpec /\ WF_vars(IoIteration)


\* ---------------------------------------------------- byte-stream helpers
\* One call of Socket::writeBytes, readBytes or readLine with the bytes it
\* moves.  stream.input is the string to write, or the bytes the peer sends;
\* stream.accepted is what ::send took, in the order it took it;
\* stream.consumed counts the bytes ::recv handed over; stream.chunks is
\* what the chunk callback received; stream.result is the value returned.
MaxStream == 3
readBufferSize == 2    \* 1 << 14 in readBytes
StreamHelpers == {"writeBytes", "readBytes", "readLine"}
StreamChars == {"x", "\r", "\n"}
Streams == UNION {[1..n -> StreamChars] : n \in 0..MaxStream}
TurnOutcomes == {"ok", "wouldBlock", "pollError", "closed", "cancelled"}

StreamInit ==
    /\ InitIdle /\ HandshakeIdle /\ SocketIdle /\ PoolIdle
    /\ ConfigIdle /\ PollIdle /\ ProxyIdle /\ IoIdle
    /\ ServerIdle /\ RequestIdle
    /\ \E helper \in StreamHelpers, input \in Streams, length \in 0..MaxBytes,
          chunkMode \in BOOLEAN :
          /\ helper # "readBytes" => (length = 0 /\ ~chunkMode)
          /\ stream = [pc |-> "loop", helper |-> helper, input |-> input,
                       length |-> length, chunkMode |-> chunkMode,
                       offset |-> 0,
                       len |-> IF helper = "writeBytes" THEN Len(input) ELSE 0,
                       accepted |-> << >>, consumed |-> 0, output |-> << >>,
                       chunks |-> << >>, ret |-> "none", result |-> << >>]

StreamUnchanged ==
    UNCHANGED <<handshakeVars, socketVars, poolVars, cfg, sel, px, io, srv, rq,
                configVars, senderVars, appVars, envVars, supervisorVars,
                readyState, requestInitCancellation, stop, stats, buffered>>

StreamFailed == [stream EXCEPT !.pc = "done", !.ret = "false"]

\* Socket::writeBytes, lines 352-377: one turn of the loop; ::send takes k
\* bytes from str[offset], and 0 only for an empty buffer
writeBytes_turn(o, k) ==
    /\ stream.pc = "loop" /\ stream.helper = "writeBytes"
    /\ o = "ok" => k \in 1..stream.len
    /\ o # "ok" => k = 0
    /\ stream' =
         IF o = "cancelled" THEN StreamFailed
         ELSE IF o = "ok"
         THEN LET took == SubSeq(stream.input, stream.offset + 1,
                                 stream.offset + k)
              IN  IF k = stream.len
                  THEN [stream EXCEPT !.pc = "done", !.ret = "true",
                                      !.accepted = @ \o took]
                  ELSE [stream EXCEPT !.accepted = @ \o took,
                                      !.offset = @ + k, !.len = @ - k]
         ELSE IF o = "wouldBlock" THEN stream
         ELSE StreamFailed
    /\ StreamUnchanged

\* Variant of Size that asks recv for a whole buffer every time.
Size_wholeBuffer(length, bytesRead) == readBufferSize

\* readBytes, line 445: size = min(readBuffer.size(), length - bytesRead)
Size(length, bytesRead) == Min(readBufferSize, length - bytesRead)

\* Socket::readBytes, lines 423-439 and 475: the loop is not entered, or is
\* left, when bytesRead equals length; the accumulated output is returned
readBytes_return ==
    /\ stream.pc = "loop" /\ stream.helper = "readBytes"
    /\ Len(stream.output) + Len(stream.chunks) = stream.length
    /\ stream' = [stream EXCEPT !.pc = "done", !.ret = "true",
                                !.result = stream.output]
    /\ StreamUnchanged

\* Socket::readBytes, lines 438-471: one turn of the loop; ::recv hands over
\* k of the bytes the peer sent, at most size
readBytes_turn(o, k) ==
    /\ stream.pc = "loop" /\ stream.helper = "readBytes"
    /\ Len(stream.output) + Len(stream.chunks) # stream.length
    /\ LET bytesRead == Len(stream.output) + Len(stream.chunks)
           size == Size(stream.length, bytesRead)
           chunk == SubSeq(stream.input, stream.consumed + 1,
                           stream.consumed + k)
       IN  /\ o = "ok" =>
                  k \in 1..Min(size, Len(stream.input) - stream.consumed)
           /\ o # "ok" => k = 0
           /\ stream' =
                IF o = "cancelled" THEN StreamFailed
                ELSE IF o = "ok"
                THEN IF stream.chunkMode
                     THEN [stream EXCEPT !.chunks = @ \o chunk,
                                         !.consumed = @ + k]
                     ELSE [stream EXCEPT !.output = @ \o chunk,
                                         !.consumed = @ + k]
                ELSE IF o = "wouldBlock" THEN stream
                ELSE StreamFailed
    /\ StreamUnchanged

\* Socket::readLine, lines 397-421, with the readByte it calls: one byte
\* joins the line; the line is returned when it ends with CRLF, and nothing
\* is returned once it has maxLineLength characters
readLine_turn(o) ==
    /\ stream.pc = "loop" /\ stream.helper = "readLine"
    /\ o = "ok" => stream.consumed < Len(stream.input)
    /\ stream' =
         IF o = "cancelled" THEN StreamFailed
         ELSE IF o = "ok"
         THEN LET line == Append(stream.output,
                                 stream.input[stream.consumed + 1])
                  n == Len(line)
              IN  IF n >= 2 /\ line[n - 1] = "\r" /\ line[n] = "\n"
                  THEN [stream EXCEPT !.pc = "done", !.ret = "true",
                                      !.output = line, !.result = line,
                                      !.consumed = @ + 1]
                  ELSE IF n >= maxLineLength
                  THEN [StreamFailed EXCEPT !.output = line,
                                            !.consumed = @ + 1]
                  ELSE [stream EXCEPT !.output = line, !.consumed = @ + 1]
         ELSE IF o = "wouldBlock" THEN stream
         ELSE StreamFailed
    /\ StreamUnchanged

StreamNext ==
    \/ \E o \in TurnOutcomes, k \in 0..MaxStream : writeBytes_turn(o, k)
    \/ readBytes_return
    \/ \E o \in TurnOutcomes, k \in 0..MaxStream : readBytes_turn(o, k)
    \/ \E o \in TurnOutcomes : readLine_turn(o)

StreamSpec == StreamInit /\ [][StreamNext]_vars


\* --------------------------------------------------------- WebSocketServer
\* A WebSocketServer and the handleUpgrade calls of its connection threads.
\* srv.count is _connectionsPerIp (0 for an IP the map does not hold),
\* srv.clients is _clients, srv.h keeps for each connection where its
\* handleUpgrade is and what it did.  The two critical sections of
\* _rateLimitMutex and the two of _clientsMutex are one step each.
NHandlers == 3
MaxPerIp == 2
IPs == {"ip1", "ip2"}
Handlers == 1..NHandlers
kPingIntervalSeconds == -1
PingIntervalSeconds == {kPingIntervalSeconds, 0, 1}
DefaultTimeoutsPingIntervalSecs == -1
ServerCallbacks == {"connection", "connectionNoSink", "clientMessage", "none"}

ServerInit ==
    /\ InitIdle /\ HandshakeIdle /\ SocketIdle /\ PoolIdle
    /\ ConfigIdle /\ PollIdle /\ ProxyIdle /\ IoIdle
    /\ StreamIdle /\ RequestIdle
    /\ \E maxPerIp \in 0..MaxPerIp, interval \in PingIntervalSeconds,
          timeoutsInterval \in {DefaultTimeoutsPingIntervalSecs, 1},
          callbacks \in ServerCallbacks, ips \in [Handlers -> IPs] :
          srv = [pc |-> "serving",
                 maxConnectionsPerIp |-> maxPerIp,
                 pingIntervalSeconds |-> interval,
                 timeouts |-> [pingIntervalSecs |-> timeoutsInterval],
                 callbacks |-> callbacks,
                 count |-> [ip \in IPs |-> 0],
                 clients |-> {},
                 h |-> [c \in Handlers |->
                          [pc |-> "arrived", ip |-> ips[c],
                           terminated |-> FALSE, registered |-> FALSE,
                           handshake |-> "none",
                           pingIntervalSecs |-> kDefaultPingIntervalSecs,
                           heartBeat |-> FALSE, outcome |-> "none"]]]

ServerUnchanged ==
    UNCHANGED <<handshakeVars, socketVars, poolVars, cfg, sel, px, io, stream,
                rq, configVars, senderVars, appVars, envVars, supervisorVars,
                readyState, requestInitCancellation, stop, stats, buffered>>

\* Variant of RateLimited that rejects only above the limit.
RateLimited_above(count, maxPerIp) == maxPerIp > 0 /\ count > maxPerIp

\* handleUpgrade, line 141: the test made under _rateLimitMutex
RateLimited(count, maxPerIp) == maxPerIp > 0 /\ count >= maxPerIp

\* handleUpgrade returns before the handshake
Rejected(c, outcome) ==
    [srv EXCEPT !.h[c].pc = "returned", !.h[c].terminated = TRUE,
                !.h[c].outcome = outcome]

\* handleUpgrade, lines 138-148: the limit is tested and the counter of the
\* IP incremented under _rateLimitMutex
handleUpgrade_rateLimit(c) ==
    /\ srv.h[c].pc = "arrived"
    /\ LET ip == srv.h[c].ip IN
       srv' = IF RateLimited(srv.count[ip], srv.maxConnectionsPerIp)
              THEN Rejected(c, "rateLimited")
              ELSE [srv EXCEPT !.count[ip] = @ + 1, !.h[c].pc = "configure"]
    /\ ServerUnchanged

\* handleUpgrade, lines 150-184: the WebSocket is made, setPingInterval and
\* then setTimeouts (which stores timeouts.pingIntervalSecs as the ping
\* interval) are called, and the callbacks of the server are looked at
handleUpgrade_configure(c) ==
    /\ srv.h[c].pc = "configure"
    /\ LET afterSetPingInterval == srv.pingIntervalSeconds
           afterSetTimeouts == srv.timeouts.pingIntervalSecs
       IN
       srv' = IF srv.callbacks = "connectionNoSink"
              THEN [Rejected(c, "noSink") EXCEPT
                      !.h[c].pingIntervalSecs = afterSetTimeouts]
              ELSE IF srv.callbacks = "none"
              THEN [Rejected(c, "noCallback") EXCEPT
                      !.h[c].pingIntervalSecs = afterSetTimeouts]
              ELSE [srv EXCEPT !.h[c].pc = "register",
                               !.h[c].pingIntervalSecs = afterSetTimeouts]
    /\ ServerUnchanged

\* handleUpgrade, lines 189-193: the client joins _clients
handleUpgrade_register(c) ==
    /\ srv.h[c].pc = "register"
    /\ srv' = [srv EXCEPT !.clients = @ \cup {c}, !.h[c].registered = TRUE,
                          !.h[c].pc = "handshake"]
    /\ ServerUnchanged

\* handleUpgrade, lines 195-209, and connectToSocket, lines 285-319: the
\* handshake; after a successful one Open is published and the heart beat
\* sent when the ping interval is positive
handleUpgrade_connectToSocket(c, success) ==
    /\ srv.h[c].pc = "handshake"
    /\ srv' = IF success
              THEN [srv EXCEPT !.h[c].handshake = "success",
                               !.h[c].heartBeat = (srv.h[c].pingIntervalSecs > 0),
                               !.h[c].pc = "run"]
              ELSE [srv EXCEPT !.h[c].handshake = "failure",
                               !.h[c].pc = "unregister"]
    /\ ServerUnchanged

\* handleUpgrade, line 201: run() returns when the connection is closed
handleUpgrade_run(c) ==
    /\ srv.h[c].pc = "run"
    /\ srv' = [srv EXCEPT !.h[c].pc = "unregister"]
    /\ ServerUnchanged

\* handleUpgrade, lines 211-220: the client leaves _clients
handleUpgrade_unregister(c) ==
    /\ srv.h[c].pc = "unregister"
    /\ srv' = [srv EXCEPT !.clients = @ \ {c}, !.h[c].pc = "decrement"]
    /\ ServerUnchanged

\* handleUpgrade, lines 222-233: the counter of the IP is decremented
handleUpgrade_decrement(c) ==
    /\ srv.h[c].pc = "decrement"
    /\ LET ip == srv.h[c].ip IN
       srv' = [srv EXCEPT !.count[ip] = IF @ > 0 THEN @ - 1 ELSE @,
                          !.h[c].pc = "returned",
                          !.h[c].outcome = "completed"]
    /\ ServerUnchanged

\* getConnectionCountForIp, lines 106-111
getConnectionCountForIp(ip) == srv.count[ip]

ServerNext ==
    \E c \in Handlers :
        \/ handleUpgrade_rateLimit(c)
        \/ handleUpgrade_configure(c)
        \/ handleUpgrade_register(c)
        \/ \E success \in BOOLEAN : handleUpgrade_connectToSocket(c, success)
        \/ handleUpgrade_run(c)
        \/ handleUpgrade_unregister(c)
        \/ handleUpgrade_decrement(c)

ServerSpec == ServerInit /\ [][ServerNext]_vars


\* ------------------------------------------- a WebSocket the server accepted
\* One connection thread of the server between connectToSocket and the
\* return of run() (handleUpgrade, lines 186-209).  srv follows the thread
\* through handleUpgrade; run() is executed by the same thread with the
\* steps of the supervisor above.  The transport falls to Closed when a
\* write meets an I/O error (the transport's source is not part of the
\* sources; the spec says "Any state may fall to Closed on I/O error").
HandlerThread == CHOOSE t \in Threads : \A u \in Threads : t <= u

AcceptedInit ==
    /\ InitCommonNoComponents
    /\ HandshakeIdle /\ SocketIdle /\ PoolIdle
    /\ ConfigIdle /\ PollIdle /\ ProxyIdle /\ IoIdle
    /\ StreamIdle /\ RequestIdle
    /\ automaticReconnection = FALSE
    /\ \E w \in WaitConfigs : minWait = w[1] /\ maxWait = w[2]
    /\ pingIntervalSecs \in PingIntervals
    /\ backpressureThreshold = 0
    /\ srv = [pc |-> "connectToSocket", closedAtRun |-> FALSE,
              closeRequested |-> FALSE]

AcceptedUnchanged ==
    UNCHANGED <<handshakeVars, socketVars, poolVars, cfg, sel, px, io, stream,
                rq, configVars, senderVars, appVars, envVars,
                stop, stats, buffered,
                firstConnectionAttempt, retries, duration, status, attempts>>

\* connectToSocket, lines 291-302: the server handshake
connectToSocket_handshake(success) ==
    /\ srv.pc = "connectToSocket"
    /\ readyState' = IF success THEN "Open" ELSE "Closed"
    /\ requestInitCancellation' = FALSE
    /\ srv' = [srv EXCEPT !.pc = IF success THEN "open" ELSE "returned"]
    /\ UNCHANGED <<pc, trace>>
    /\ AcceptedUnchanged

\* connectToSocket, lines 304-310: the Open message; a write the sink makes
\* may meet an I/O error
connectToSocket_open(ioError) ==
    /\ srv.pc = "open"
    /\ UNCHANGED requestInitCancellation
    /\ Log(Event("Open"))
    /\ readyState' = IF ioError THEN "Closed" ELSE readyState
    /\ srv' = [srv EXCEPT !.pc = "heartBeat"]
    /\ UNCHANGED pc
    /\ AcceptedUnchanged

\* connectToSocket, lines 312-318: the heart beat, whose write may meet an
\* I/O error
connectToSocket_heartBeat(ioError) ==
    /\ srv.pc = "heartBeat"
    /\ UNCHANGED requestInitCancellation
    /\ trace' = IF pingIntervalSecs > 0 THEN Append(trace, Event("HeartBeat"))
                ELSE trace
    /\ readyState' = IF pingIntervalSecs > 0 /\ readyState = "Open" /\ ioError
                     THEN "Closed" ELSE readyState
    /\ srv' = [srv EXCEPT !.pc = "status"]
    /\ UNCHANGED pc
    /\ AcceptedUnchanged

\* handleUpgrade, lines 197-202: the status was a success, run() is called
handleUpgrade_callRun ==
    /\ srv.pc = "status"
    /\ UNCHANGED requestInitCancellation
    /\ pc[HandlerThread] = "none"
    /\ pc' = [pc EXCEPT ![HandlerThread] = "run"]
    /\ srv' = [srv EXCEPT !.pc = "run", !.closedAtRun = (readyState = "Closed")]
    /\ UNCHANGED <<readyState, trace>>
    /\ AcceptedUnchanged

\* WebSocketServer::stop, lines 50-54, on another thread: close() is called
\* on every client of the registry, which this one joined at line 192
WebSocketServer_stop_close ==
    /\ srv.pc \in {"connectToSocket", "open", "heartBeat", "status", "run"}
    /\ ~srv.closeRequested
    /\ transport_close
    /\ srv' = [srv EXCEPT !.closeRequested = TRUE]
    /\ UNCHANGED <<handshakeVars, socketVars, poolVars, cfg, sel, px, io,
                   stream, rq, configVars, senderVars, appVars, envVars,
                   stop, stats, buffered, supervisorVars>>

AcceptedNext ==
    \/ \E success \in BOOLEAN : connectToSocket_handshake(success)
    \/ \E ioError \in BOOLEAN : connectToSocket_open(ioError)
    \/ \E ioError \in BOOLEAN : connectToSocket_heartBeat(ioError)
    \/ handleUpgrade_callRun
    \/ run_enter(HandlerThread)
    \/ checkConnection_enter(HandlerThread)
    \/ checkConnection_loop(HandlerThread)
    \/ checkConnection_stop(HandlerThread)
    \/ connect_begin(HandlerThread)
    \/ connectToUrl_failure(HandlerThread)
    \/ checkConnection_error(HandlerThread)
    \/ run_check(HandlerThread)
    \/ dispatch_message(HandlerThread)
    \/ poll_drain(HandlerThread)
    \/ poll_closed(HandlerThread)
    \/ poll_lost(HandlerThread)
    \/ WebSocketServer_stop_close

AcceptedSpec == AcceptedInit /\ [][AcceptedNext]_vars


\* ------------------------------------------- the requests of socks5Connect
\* The two requests socks5Connect builds from what the caller configured.
\* A field is kept by its size, which is all the framing depends on; a
\* request is the bytes of its framing and the number of bytes of each
\* field that follow them.
FieldSizes == {0, 1, 255, 256, 300}
TargetPorts == {0, 80, 443, 65535, 65616}

\* static_cast<char> of a size, as the byte that is sent
ByteOf(n) == n % 256

RequestInit ==
    /\ InitIdle /\ HandshakeIdle /\ SocketIdle /\ PoolIdle
    /\ ConfigIdle /\ PollIdle /\ ProxyIdle /\ IoIdle
    /\ StreamIdle /\ ServerIdle
    /\ \E host \in FieldSizes, username \in FieldSizes,
          password \in FieldSizes, targetPort \in TargetPorts,
          method \in {0, 2} :
          rq = [pc |-> IF method = 2 /\ username > 0 THEN "auth" ELSE "connect",
                targetHost |-> host, username |-> username,
                password |-> password, targetPort |-> targetPort,
                authRequest |-> << >>, connectRequest |-> << >>]

RequestUnchanged ==
    UNCHANGED <<handshakeVars, socketVars, poolVars, cfg, sel, px, io, stream,
                srv, configVars, senderVars, appVars, envVars, supervisorVars,
                readyState, requestInitCancellation, stop, stats, buffered>>

\* socks5Connect, lines 608-613: version, size of the user name, the user
\* name, size of the password, the password
socks5Connect_buildAuthRequest ==
    /\ rq.pc = "auth"
    /\ rq' = [rq EXCEPT !.pc = "connect",
                        !.authRequest =
                            [version |-> 1,
                             ulen |-> ByteOf(rq.username),
                             uname |-> rq.username,
                             plen |-> ByteOf(rq.password),
                             passwd |-> rq.password]]
    /\ RequestUnchanged

\* socks5Connect, lines 634-647: version, command, reserved, address type,
\* size of the host, the host, and the port in network byte order
socks5Connect_buildConnectRequest ==
    /\ rq.pc = "connect"
    /\ rq' = [rq EXCEPT !.pc = "done",
                        !.connectRequest =
                            [version |-> 5, cmd |-> 1, rsv |-> 0, atyp |-> 3,
                             len |-> ByteOf(rq.targetHost),
                             host |-> rq.targetHost,
                             portHi |-> ByteOf(rq.targetPort \div 256),
                             portLo |-> ByteOf(rq.targetPort)]]
    /\ RequestUnchanged

RequestNext ==
    \/ socks5Connect_buildAuthRequest
    \/ socks5Connect_buildConnectRequest

RequestSpec == RequestInit /\ [][RequestNext]_vars

\* C22: writeMutex serializes the outbound operations of the WebSocket layer:
\* the heart beat sent right after connect and the close are never issued
\* while another thread holds writeMutex inside a send.
C22_OutboundSerialized ==
    [][((\E t \in Threads : connect_heartBeat(t) /\ pingIntervalSecs > 0)
            \/ WebSocket_close)
        => \A s \in Senders : writeMutex # s]_vars


\* C23: configMutex serializes the accesses to the configurable options:
\* every read and every write of an option, the supervisor's reads in
\* connect() and checkConnection() included, is made by a thread that holds
\* configMutex.
C23_ConfigLocked ==
    \A a \in cfg.accesses : a.holder = a.by


\* C24: a wake-up token that is pending when Socket::poll starts, or that is
\* notified while it waits, makes poll return the request of that token
\* (SendRequest for kSendRequest, CloseRequest for kCloseRequest) rather than
\* Timeout or the readiness of the socket, and the token is consumed.
C24_PollInterrupted ==
    (sel.pc = "done" /\ sel.seen # << >> /\ sel.pollResult # "Error")
        => /\ sel.pollResult = IF Head(sel.seen) = kSendRequest
                               THEN "SendRequest" ELSE "CloseRequest"
           /\ sel.values = Tail(sel.seen)


\* ------------------------------------------------- claims on ProxyConnect
LogOps == [k \in 1..Len(px.log) |-> px.log[k].op]
IsPrefixOf(p, q) == Len(p) <= Len(q) /\ SubSeq(q, 1, Len(p)) = p
Attempted(op) == \E k \in 1..Len(px.log) : px.log[k].op = op
Completed(op) == \E k \in 1..Len(px.log) : px.log[k] = [op |-> op, ok |-> TRUE]

\* the messages of a SOCKS5 handshake in the order the protocol gives them,
\* for the method the server selected and the address type it bound
Socks5Order ==
    <<"greeting", "methodReply">>
    \o (IF px.method.method = 2 THEN <<"authRequest", "authReply">> ELSE << >>)
    \o <<"connectRequest", "connectReply">>
    \o (IF px.reply.atyp = 3 THEN <<"boundLength", "boundAddress">>
        ELSE IF px.reply.atyp \in {1, 4} THEN <<"boundAddress">>
        ELSE << >>)
    \o <<"boundPort">>

\* C25: the SOCKS5 handshake goes greeting, method reply, auth request and
\* auth reply exactly when the server selected method 0x02, connect request,
\* connect reply, bound address and port; the connect request is sent only
\* after a method reply with version 0x05 and a method other than 0xFF and,
\* for method 0x02, with credentials and an auth reply of status 0x00; the
\* handshake succeeds only after a connect reply with version 0x05 and reply
\* code 0x00 and a completed drain.
C25_Socks5Order ==
    px.type = "Socks5" =>
        /\ IsPrefixOf(LogOps, Socks5Order)
        /\ \A k \in 1..(Len(px.log) - 1) : px.log[k].ok
        /\ Attempted("connectRequest") =>
               /\ Completed("methodReply")
               /\ px.method.ver = 5 /\ px.method.method # 255
               /\ px.method.method = 2 =>
                      /\ px.requiresAuth
                      /\ Completed("authReply") /\ px.auth.status = 0
               /\ px.method.method # 2 => ~Attempted("authRequest")
        /\ px.ret = "true" =>
               /\ Completed("connectReply")
               /\ px.reply.ver = 5 /\ px.reply.rep = 0
               /\ px.log[Len(px.log)] = [op |-> "boundPort", ok |-> TRUE]

C25_Witness ==
    /\ px.pc = "done" /\ px.type = "Socks5" /\ px.ret = "true"
    /\ px.method.method = 2 /\ px.reply.atyp = 3

\* the status line starts with "HTTP/1." and has 200 at offset 9
Carries200(statusLine) ==
    /\ IsPrefixOf(S_HTTP1, statusLine)
    /\ Len(statusLine) >= 12
    /\ SubSeq(statusLine, 10, 12) = <<"2", "0", "0">>
HeaderBlockRead == Completed("CRLF")

\* C26: httpConnect succeeds exactly when the status line carries 200 and
\* the header block was read up to the bare CRLF line; with another status
\* and the header block read it fails with a message that names the status;
\* the CONNECT request is sent once.
C26_HttpConnectIff ==
    (px.pc = "done" /\ px.type \in {"Http", "Https"}) =>
        /\ px.ret = "true" <=> (Carries200(px.statusLine) /\ HeaderBlockRead)
        /\ (HeaderBlockRead /\ ~Carries200(px.statusLine)) =>
               /\ px.ret = "false"
               /\ px.errMsg = <<"Proxy CONNECT failed with status: ">>
                                 \o int_to_string(px.statusCode)
        /\ Cardinality({k \in 1..Len(px.log) : px.log[k].op = "CONNECT"}) <= 1

C26_Witness ==
    /\ px.pc = "done" /\ px.type = "Http" /\ px.ret = "true" /\ px.headers = 1

\* C27: a proxy handshake that fails returns false with a message that is
\* not empty.
C27_FailureHasMessage ==
    (px.pc = "done" /\ px.ret = "false") => px.errMsg # << >>

\* C28: whatever the proxy replies to CONNECT, httpConnect returns true or
\* false; no exception leaves it.
C28_NoException ==
    px.pc = "done" => px.ret \in {"true", "false"}

\* the messages a failed raw send or receive is reported with (none for the
\* bound address and port)
IoFailureMessages ==
    {<<"Failed to send CONNECT request to proxy">>,
     <<"Failed to read proxy response">>,
     <<"Failed to read proxy headers">>,
     <<"Failed to send SOCKS5 greeting">>,
     <<"Failed to read SOCKS5 greeting response">>,
     <<"Failed to send SOCKS5 auth request">>,
     <<"Failed to read SOCKS5 auth response">>,
     <<"Failed to send SOCKS5 connect request">>,
     <<"Failed to read SOCKS5 connect response">>,
     << >>}

\* C29: a handshake aborted by the cancellation predicate reports an outcome
\* that no I/O failure is reported with.
C29_CancellationDistinct ==
    (px.pc = "done" /\ px.cause = "cancelled")
        => ~(px.ret = "false" /\ px.errMsg \in IoFailureMessages)


\* C30: every blocking I/O helper tests the cancellation predicate on each
\* turn of its loop and returns failure on the first turn that finds it
\* true; hence a call ends once the predicate holds, even with a peer that
\* never becomes readable or writable.
C30_CancellationTerminates ==
    /\ [][(io.pc = "loop" /\ io.cancel /\ io' # io /\ io'.peer = io.peer)
            => (io'.pc = "done" /\ io'.ret = "false")]_vars
    /\ (io.pc = "loop" /\ io.cancel) ~> (io.pc = "done")

C30_Witness ==
    /\ io.pc = "done" /\ io.cause = "cancelled" /\ io.ret = "false"
    /\ io.peer = "stall"


\* the bytes of str up to and including its first CRLF
RECURSIVE FirstLine(_, _)
FirstLine(str, k) ==
    IF k >= Len(str) THEN << >>
    ELSE IF str[k] = "\r" /\ str[k + 1] = "\n" THEN SubSeq(str, 1, k + 1)
    ELSE FirstLine(str, k + 1)

\* what a byte-stream helper handed to its caller
HandedOver == IF stream.chunkMode THEN stream.chunks ELSE stream.result

\* C31: the byte-stream helpers are all-or-nothing: writeBytes returns true
\* only when send accepted the whole input once and in order; readBytes(n)
\* returns, or hands to the chunk callback, exactly the next n bytes and
\* consumes no more; readLine returns the bytes up to and including the
\* first CRLF, at most maxLineLength of them; a helper that fails hands
\* over nothing.
C31_AllOrNothing ==
    /\ stream.helper = "writeBytes" =>
           /\ IsPrefixOf(stream.accepted, stream.input)
           /\ stream.ret = "true" => stream.accepted = stream.input
    /\ stream.helper = "readBytes" =>
           /\ stream.consumed <= stream.length
           /\ stream.ret = "true" =>
                  /\ HandedOver = SubSeq(stream.input, 1, stream.length)
                  /\ stream.consumed = stream.length
    /\ (stream.helper = "readLine" /\ stream.ret = "true") =>
               /\ stream.result = FirstLine(stream.input, 1)
               /\ stream.result # << >>
               /\ Len(stream.result) <= maxLineLength
    /\ stream.ret = "false" => HandedOver = << >>


\* C32: with maxConnectionsPerIp = L > 0 the counter of an IP never exceeds
\* L, and a connection that arrives while the counter of its IP equals L is
\* terminated with no handshake, without joining the client registry and
\* without a change of the counter.
C32_PerIpBounded ==
    /\ [](srv.maxConnectionsPerIp > 0 =>
            \A ip \in IPs : getConnectionCountForIp(ip) <= srv.maxConnectionsPerIp)
    /\ [][\A c \in Handlers :
            (/\ srv.maxConnectionsPerIp > 0
             /\ srv.h[c].pc = "arrived"
             /\ srv.count[srv.h[c].ip] = srv.maxConnectionsPerIp
             /\ srv'.h[c] # srv.h[c])
            => /\ srv'.h[c].pc = "returned" /\ srv'.h[c].terminated
               /\ srv'.h[c].handshake = "none" /\ ~srv'.h[c].registered
               /\ srv'.clients = srv.clients
               /\ srv'.count = srv.count]_vars

C32_Witness ==
    /\ srv.maxConnectionsPerIp = 2
    /\ \E c \in Handlers : srv.h[c].outcome = "rateLimited"
    /\ \E ip \in IPs : srv.count[ip] = 2

\* C33: once every handleUpgrade call for an IP has returned, whatever its
\* end, the connection count of the IP is 0.
C33_CounterBalanced ==
    \A ip \in IPs :
        (\A c \in Handlers : srv.h[c].ip = ip => srv.h[c].pc = "returned")
            => getConnectionCountForIp(ip) = 0

\* C38: a WebSocket accepted by a server constructed with ping interval N,
\* its timeouts left at their defaults, goes into the handshake with ping
\* interval N, and the heart beat after Open is sent exactly when N > 0.
C38_ServerPingInterval ==
    \A c \in Handlers :
        (/\ srv.timeouts.pingIntervalSecs = DefaultTimeoutsPingIntervalSecs
         /\ srv.h[c].handshake = "success")
        => /\ srv.h[c].pingIntervalSecs = srv.pingIntervalSeconds
           /\ srv.h[c].heartBeat <=> srv.pingIntervalSeconds > 0


\* C34: a WebSocket accepted by the server whose connection is already
\* Closed when run() starts returns from run() without calling connect()
\* and without emitting an Error message.
C34_NoOutboundConnect ==
    srv.pc = "run" /\ srv.closedAtRun
        => pc[HandlerThread] \notin {"connect", "connecting", "cc_error"}


\* The supervisor t is before its first connection attempt or between two
\* attempts: the transport is Closed and checkConnection() will go on to
\* connect().
Retrying(t) ==
    /\ readyState = "Closed"
    /\ \/ pc[t] \in {"cc_sleep", "waiting", "connect"}
       \/ pc[t] \in {"run", "cc_enter", "cc_loop", "cc_stop"} /\ ~stop
          /\ (pc[t] = "cc_stop" \/ firstConnectionAttempt[t]
              \/ automaticReconnection)

\* C35: start() joins only a supervisor thread that has finished, or is
\* about to finish, its run loop; it never waits on a supervisor that is
\* before its first connection attempt or between two attempts.
C35_StartJoinsFinished ==
    appPc = "start_join" => ~Retrying(thread)

\* start() returns once it has been called.
C35_StartTerminates ==
    (appPc = "start_join") ~> (appPc # "start_join")


\* C36: no application callback is invoked by a thread that holds
\* writeMutex (or backpressureMutex, which is only ever taken by a thread
\* holding writeMutex): the backpressure callback is never called by a
\* sender that owns the write mutex.
C36_CallbacksOutsideLocks ==
    [][\A s \in Senders :
         (sendPc[s] = "backpressure" /\ bpCalls' # bpCalls) => writeMutex # s]_vars

\* C37: a send of any kind and priority issued while readyState is not Open
\* returns at once and changes nothing: the call does not go on to the
\* transport, and the stats, the send queue, the backpressure state and the
\* backpressure callback are untouched.
C37_NotOpenSendNoEffect ==
    [][(readyState # "Open" /\ sends' = sends + 1)
         => /\ sendPc' = sendPc
            /\ writeMutex' = writeMutex
            /\ UNCHANGED <<stats, buffered, backpressureActive, bpCalls,
                           readyState, requestInitCancellation>>]_vars


\* C39: Socket::poll returns ReadyForRead only when called in read mode and
\* the socket is readable, and ReadyForWrite only when called in write mode
\* and the socket is writable with no pending socket error; a wake-up whose
\* token cannot be read never yields ReadyForRead.
C39_ReadinessMatchesMode ==
    sel.pc = "done" =>
        /\ sel.pollResult = "ReadyForRead" => sel.readyToRead /\ sel.ready
        /\ sel.pollResult = "ReadyForWrite" =>
               ~sel.readyToRead /\ sel.ready /\ ~sel.soError


\* C40: in every SOCKS5 request the length byte of a field (target host,
\* user name, password) equals the number of bytes of the field that
\* follow it, and portHi * 256 + portLo is the target port.
C40_Socks5Framing ==
    /\ rq.authRequest # << >> =>
          /\ rq.authRequest.ulen = rq.authRequest.uname
          /\ rq.authRequest.plen = rq.authRequest.passwd
    /\ rq.connectRequest # << >> =>
          /\ rq.connectRequest.len = rq.connectRequest.host
          /\ rq.connectRequest.portHi * 256 + rq.connectRequest.portLo
                = rq.targetPort

====
